---- MODULE Spec2Model ----
(***************************************************************************)
(* Backup restore (Settings page) of the personal-finance client.          *)
(*                                                                         *)
(* The model has three layers:                                             *)
(*   - the remote record store behind the HTTP API (api.ts): three tables  *)
(*     of records with server-assigned identifiers, and the set of         *)
(*     requests that are in flight;                                        *)
(*   - the React state of SettingsPage (pendingImport, importing,          *)
(*     importProgress, info, busy, counts);                                *)
(*   - the position of the one asynchronous runImport call, which          *)
(*     suspends at every await and is resumed by the settling of the       *)
(*     request(s) it waits for.                                            *)
(*                                                                         *)
(* One action is one event-loop task: a user event or the settling of a    *)
(* request, together with the whole continuation of the handler up to its  *)
(* next await.                                                             *)
(***************************************************************************)
EXTENDS Integers, Sequences, FiniteSets, TLC

\* ------------------------------------------------------------------ bounds
\* The number of records of an array of a backup document that has any.
MaxLen == 2
\* Largest number of confirmed import runs in one behaviour.
MaxRuns == 1

\* --------------------------------------------------------------- constants
KindSet == {"expenses", "budgets", "savings"}

NextKind(k) == IF k = "expenses" THEN "budgets" ELSE "savings"

\* The message of the Error thrown by request() when fetch fails.
ErrMsgs == {"Network error. Is the API running on 4000?"}

FileNames == {"finance-backup.json"}

\* ---------------------------------------------------------------- documents
\* Records as they appear in a backup file: the exported records carry the
\* identifier they had on the server.  The record at position i of an array
\* is fixed, so that a document is determined by the arrays it has and their
\* lengths; the records of one array differ from each other, and both a
\* budget with and without spending and a saving with and without progress
\* occur.
DocExpense(i) ==
  [id |-> 7 + i, date |-> "2025-01-09", category |-> "Food",
   description |-> IF i % 2 = 1 THEN "Groceries" ELSE "Lunch",
   amount |-> IF i % 2 = 1 THEN 3200 ELSE 0]

DocBudget(i) ==
  [id |-> 7 + i, category |-> IF i % 2 = 1 THEN "Food" ELSE "Bills",
   limit |-> 20000, spent |-> IF i % 2 = 1 THEN 500 ELSE 0]

DocSaving(i) ==
  [id |-> 7 + i, name |-> IF i % 2 = 1 THEN "New Phone" ELSE "Trip",
   target |-> 150000, current |-> IF i % 2 = 1 THEN 60000 ELSE 0]

DocRec(k, i) ==
  IF k = "expenses" THEN DocExpense(i)
  ELSE IF k = "budgets" THEN DocBudget(i) ELSE DocSaving(i)

\* The value of one of the optional array fields of BackupPayload: the field
\* is absent (undefined) or holds an array.
EmptyField == [tag |-> "absent", items |-> <<>>]

ArrayField(k, n) == [tag |-> "array", items |-> [i \in 1..n |-> DocRec(k, i)]]

\* A hand-written file leaves out the arrays it has no records for.
PartialField(k, n) == IF n = 0 THEN EmptyField ELSE ArrayField(k, n)

ObjectDoc(e, b, s) == [tag |-> "object", expenses |-> e, budgets |-> b, savings |-> s]

\* What JSON.parse can make of the chosen file: the value null, a value that
\* is no object (a number, a string, a boolean), or an object: the backup of
\* an empty account (three empty arrays), or a file with the arrays it has
\* records for, which is an object without any array when it has no record
\* at all.  (Text that is no JSON makes JSON.parse throw, which ends in the
\* catch block as reading a field of null does.)
NonObjectDocs ==
  {[tag |-> t, expenses |-> EmptyField, budgets |-> EmptyField, savings |-> EmptyField] :
      t \in {"null", "number"}}

ObjectDocs ==
  {ObjectDoc(ArrayField("expenses", 0), ArrayField("budgets", 0), ArrayField("savings", 0))}
  \cup
  {ObjectDoc(PartialField("expenses", v[1]), PartialField("budgets", v[2]),
             PartialField("savings", v[3])) :
      v \in {0, MaxLen} \X {0, MaxLen} \X {0, MaxLen}}

Docs == ObjectDocs \cup NonObjectDocs

IsArray(f) == f.tag = "array"

\* payload.k || []
Arr(p, k) == IF IsArray(p[k]) THEN p[k].items ELSE <<>>

\* Number(x || 0) on a numeric field: 0 is falsy and is replaced by 0.
NumberOrZero(x) == IF x = 0 THEN 0 ELSE x

\* ------------------------------------------------------------------ requests
NoBody == [none |-> TRUE]

\* A request in flight.  live: the promise of the request is still awaited by
\* the running handler; a request whose handler has already left through its
\* catch block stays in flight with live = FALSE.
GetReq(k) == [op |-> "get", kind |-> k, id |-> 0, body |-> NoBody, live |-> TRUE]

DeleteReq(k, id) ==
  [op |-> "delete", kind |-> k, id |-> id, body |-> NoBody, live |-> TRUE]

CreateReq(k, b) == [op |-> "create", kind |-> k, id |-> 0, body |-> b, live |-> TRUE]

UpdateReq(k, id, b) ==
  [op |-> "update", kind |-> k, id |-> id, body |-> b, live |-> TRUE]

\* The fields runImport copies from a document record into the create call.
ExpenseBody(e) ==
  [date |-> e.date, category |-> e.category, description |-> e.description,
   amount |-> NumberOrZero(e.amount)]

BudgetBody(b) == [category |-> b.category, limit |-> NumberOrZero(b.limit)]

SavingBody(s) == [name |-> s.name, target |-> NumberOrZero(s.target)]

CreateBody(k, r) ==
  IF k = "expenses" THEN ExpenseBody(r)
  ELSE IF k = "budgets" THEN BudgetBody(r) ELSE SavingBody(r)

\* -------------------------------------------------------------------- server
\* The record the server stores for a create request: the fields of the
\* request body, a fresh identifier, and zero for the field the request does
\* not carry (spent of a budget, current of a saving).
Created(k, id, b) ==
  IF k = "expenses"
  THEN [id |-> id, date |-> b.date, category |-> b.category,
        description |-> b.description, amount |-> b.amount]
  ELSE IF k = "budgets"
  THEN [id |-> id, category |-> b.category, limit |-> b.limit, spent |-> 0]
  ELSE [id |-> id, name |-> b.name, target |-> b.target, current |-> 0]

ServerCreate(st, k, id, b) == [st EXCEPT ![k] = @ \cup {Created(k, id, b)}]

ServerDelete(st, k, id) == [st EXCEPT ![k] = {r \in @ : r.id # id}]

\* PUT /savings/:id with body {current}.
ServerUpdateSaving(st, id, b) ==
  [st EXCEPT !.savings =
     {IF r.id = id THEN [r EXCEPT !.current = b.current] ELSE r : r \in @}]

Ids(st, k) == {r.id : r \in st[k]}

EmptyStore == [expenses |-> {}, budgets |-> {}, savings |-> {}]

\* The store when the page is opened: nothing, or what an earlier session
\* left there.
InitStores ==
  {EmptyStore,
   [expenses |-> {[id |-> 1, date |-> "2024-12-31", category |-> "Bills",
                   description |-> "Internet", amount |-> 4500],
                  [id |-> 2, date |-> "2024-12-31", category |-> "Transport",
                   description |-> "Taxi", amount |-> 1500]},
    budgets |-> {[id |-> 1, category |-> "Transport", limit |-> 10000,
                  spent |-> 700]},
    savings |-> {[id |-> 1, name |-> "Emergency Fund", target |-> 200000,
                  current |-> 25000]}]}

\* ----------------------------------------------------------------- variables
VARIABLES
  store,           \* server: the three tables
  nextId,          \* server: next identifier of each table
  inflight,        \* requests issued and not yet settled
  pendingImport,   \* <<>> (null) or <<[name, payload]>>
  importing,
  importProgress,  \* <<>> (null) or <<[step, current, total]>>
  info,
  busy,
  counts,
  refreshes,       \* refreshCounts calls whose reads have not settled
  pc,              \* runImport: "idle", "reading", "deleting", "creating", "updating"
  payload,         \* runImport: const { payload } = pendingImport
  snap,            \* runImport: identifiers read into ex, bu, sa
  kind,            \* runImport: the category being deleted or restored
  idx,             \* runImport: position of the for loop in payload[kind]
  done,            \* runImport: let done
  total,           \* runImport: const total
  log,             \* history: the create and update requests of the run, as issued and settled
  reports,         \* history: setImportProgress calls of the current run
  confirmed,       \* history: confirm() of the current run answered true
  outcome,         \* history: how the last run ended
  runs,            \* history: confirmed runs so far
  applying         \* history: pendingImport is the document the run in flight applies

serverVars == <<store, nextId, inflight>>
uiVars == <<pendingImport, importing, importProgress, info, busy, counts, refreshes>>
runVars == <<pc, payload, snap, kind, idx, done, total>>
histVars == <<log, reports, confirmed, outcome, runs, applying>>
vars == <<serverVars, uiVars, runVars, histVars>>

NoPayload ==
  [tag |-> "object", expenses |-> EmptyField, budgets |-> EmptyField,
   savings |-> EmptyField]

MaxId(st, k) == IF st[k] = {} THEN 0 ELSE CHOOSE i \in Ids(st, k) : \A j \in Ids(st, k) : j <= i

NoSnap == [k \in KindSet |-> {}]

Init ==
  /\ store \in InitStores
  /\ nextId = [k \in KindSet |-> MaxId(store, k) + 1]
  /\ inflight = {}
  /\ pendingImport = <<>>
  /\ importing = FALSE
  /\ importProgress = <<>>
  /\ info = ""
  /\ busy = FALSE
  /\ counts = [k \in KindSet |-> Cardinality(store[k])]
  /\ refreshes = 0
  /\ pc = "idle"
  /\ payload = NoPayload
  /\ snap = NoSnap
  /\ kind = "expenses"
  /\ idx = 0
  /\ done = 0
  /\ total = 0
  /\ log = <<>>
  /\ reports = <<>>
  /\ confirmed = FALSE
  /\ outcome = "none"
  /\ runs = 0
  /\ applying = FALSE

\* --------------------------------------------------- runImport: continuation
Report(step, cur, tot) == [step |-> step, current |-> cur, total |-> tot]

StepName(k) ==
  IF k = "expenses" THEN "Importing expenses"
  ELSE IF k = "budgets" THEN "Importing budgets" ELSE "Importing savings"

\* (payload.expenses?.length || 0) + (payload.budgets?.length || 0)
\*   + (payload.savings?.length || 0)
Total(p) == Len(Arr(p, "expenses")) + Len(Arr(p, "budgets")) + Len(Arr(p, "savings"))

\* Where the handler suspends next (or ends), what it reports and what it
\* issues on the way there.
Suspended(at, k, i, dn, tot, rq) ==
  [pc |-> at, kind |-> k, idx |-> i, done |-> dn, total |-> tot,
   reports |-> <<>>, reqs |-> rq]

Reporting(rep, eff) == [eff EXCEPT !.reports = <<rep>> \o @]

\* The head of `for (const x of payload[k] || [])` at position i (from 1):
\* the next record is sent to the server and awaited; past the last record
\* the handler bumps the next category and enters its loop, and past the
\* savings it reaches the end of the try block.
RECURSIVE LoopHead(_, _, _, _, _)
\* Fault: the records of a category are sent with Promise.all(list.map(create))
\* instead of one awaited call per iteration.
LoopHeadBurst(p, k, i, dn, tot) ==
  IF i <= Len(Arr(p, k))
  THEN Suspended("creating", k, i, dn, tot,
                 {CreateReq(k, CreateBody(k, Arr(p, k)[j])) : j \in i..Len(Arr(p, k))})
  ELSE IF k = "savings"
  THEN Suspended("finish", k, i, dn, tot, {})
  ELSE Reporting(Report(StepName(NextKind(k)), dn, tot),
                 LoopHead(p, NextKind(k), 1, dn, tot))

LoopHead(p, k, i, dn, tot) ==
  IF i <= Len(Arr(p, k))
  THEN Suspended("creating", k, i, dn, tot, {CreateReq(k, CreateBody(k, Arr(p, k)[i]))})
  ELSE IF k = "savings"
  THEN Suspended("finish", k, i, dn, tot, {})
  ELSE Reporting(Report(StepName(NextKind(k)), dn, tot),
                 LoopHead(p, NextKind(k), 1, dn, tot))

\* const total = ...; let done = 0; bump("Importing expenses"); first loop.
StartRestore(p) ==
  Reporting(Report("Importing expenses", 0, Total(p)),
            LoopHead(p, "expenses", 1, 0, Total(p)))

\* Fault: bump(step) before done++, so that the report lags one record behind.
AfterRecordStale(p, k, i, dn, tot) ==
  Reporting(Report(StepName(k), dn, tot), LoopHead(p, k, i + 1, dn + 1, tot))

\* done++; bump(step); and on to the next iteration.
AfterRecord(p, k, i, dn, tot) ==
  Reporting(Report(StepName(k), dn + 1, tot), LoopHead(p, k, i + 1, dn + 1, tot))

\* await Promise.all(list.map(delete)) for category k and the categories
\* after it: the deletes of one category are all issued at once and awaited
\* together; an empty list resolves without a request.
\* Fault: the deletes of all three categories are issued at once and awaited
\* with one Promise.all.
DeletePhaseAtOnce(p, sn, k) ==
  IF \A c \in KindSet : sn[c] = {}
  THEN StartRestore(p)
  ELSE Suspended("deleting", "savings", 0, 0, 0,
                 UNION {{DeleteReq(c, i) : i \in sn[c]} : c \in KindSet})

\* Fault: the records of the store are left in place and the document is
\* restored on top of them.
DeletePhaseSkipped(p, sn, k) == StartRestore(p)

RECURSIVE DeletePhase(_, _, _)
DeletePhase(p, sn, k) ==
  IF sn[k] # {}
  THEN Suspended("deleting", k, 0, 0, 0, {DeleteReq(k, i) : i \in sn[k]})
  ELSE IF k = "savings" THEN StartRestore(p)
  ELSE DeletePhase(p, sn, NextKind(k))

\* Fault: only the expenses are cleared before the records are restored.
AfterDeletesEarly(p, sn, k) == StartRestore(p)

\* What follows the settled deletes of category k.
AfterDeletes(p, sn, k) ==
  IF k = "savings" THEN StartRestore(p) ELSE DeletePhase(p, sn, NextKind(k))

Last(s) == s[Len(s)]

\* Entries of the history of a run: the handler issues requests, the awaited
\* request is answered (a create with the identifier of the new record), or
\* it fails with a message.
Issued(rq) == [ev |-> "issue", reqs |-> rq, id |-> 0, msg |-> ""]

Ok(r, id) == [ev |-> "ok", reqs |-> {r}, id |-> id, msg |-> ""]

Failed(r, m) == [ev |-> "fail", reqs |-> {r}, id |-> 0, msg |-> m]

\* The end of the try block and the finally block of runImport.
Finish ==
  /\ pc' = "idle"
  /\ pendingImport' = <<>>
  /\ applying' = FALSE
  /\ info' = "Import completed."
  /\ busy' = TRUE
  /\ refreshes' = refreshes + 1
  /\ importing' = FALSE
  /\ importProgress' = <<>>
  /\ outcome' = "success"
  /\ confirmed' = FALSE

\* The handler runs on from a settled await to the suspension eff.
Resume(eff, infl, lg) ==
  /\ inflight' = infl \cup eff.reqs
  /\ log' = IF eff.pc \in {"creating", "updating"}
            THEN Append(lg, Issued(eff.reqs))
            ELSE lg
  /\ reports' = reports \o eff.reports
  /\ kind' = eff.kind
  /\ idx' = eff.idx
  /\ done' = eff.done
  /\ total' = eff.total
  /\ IF eff.pc = "finish"
     THEN Finish
     ELSE /\ pc' = eff.pc
          /\ importProgress' =
               IF eff.reports = <<>> THEN importProgress ELSE <<Last(eff.reports)>>
          /\ UNCHANGED <<pendingImport, applying, info, busy, refreshes,
                         importing, outcome, confirmed>>

\* Fault: setPendingImport(null) in the finally block instead of at the end
\* of the try block.
HaltDiscarding(m, infl, lg) ==
  /\ inflight' = {[r EXCEPT !.live = FALSE] : r \in {q \in infl : q.op # "get"}}
  /\ log' = lg
  /\ info' = m
  /\ importing' = FALSE
  /\ importProgress' = <<>>
  /\ pc' = "idle"
  /\ outcome' = "failed"
  /\ confirmed' = FALSE
  /\ applying' = FALSE
  /\ pendingImport' = <<>>
  /\ UNCHANGED <<busy, refreshes, reports, kind, idx, done, total>>

\* Fault: setImportProgress(null) at the end of the try block instead of in
\* the finally block.
HaltKeepsProgress(m, infl, lg) ==
  /\ inflight' = {[r EXCEPT !.live = FALSE] : r \in {q \in infl : q.op # "get"}}
  /\ log' = lg
  /\ info' = m
  /\ importing' = FALSE
  /\ pc' = "idle"
  /\ outcome' = "failed"
  /\ confirmed' = FALSE
  /\ applying' = FALSE
  /\ UNCHANGED <<pendingImport, importProgress, busy, refreshes, reports, kind, idx,
                 done, total>>

\* The catch and finally blocks of runImport.  The requests the handler no
\* longer waits for stay in flight (a read changes nothing and is dropped).
Halt(m, infl, lg) ==
  /\ inflight' = {[r EXCEPT !.live = FALSE] : r \in {q \in infl : q.op # "get"}}
  /\ log' = lg
  /\ info' = m
  /\ importing' = FALSE
  /\ importProgress' = <<>>
  /\ pc' = "idle"
  /\ outcome' = "failed"
  /\ confirmed' = FALSE
  /\ applying' = FALSE
  /\ UNCHANGED <<pendingImport, busy, refreshes, reports, kind, idx, done, total>>

\* ------------------------------------------------------------------- staging
\* typeof json === "object" (true of null as well)
TypeofObject(d) == d.tag \in {"object", "null"}

\* Fault: the test for an array among the three fields is left out.
AnyArrayUnchecked(d) == TRUE

\* Array.isArray(json.expenses) || Array.isArray(json.budgets)
\*   || Array.isArray(json.savings)
AnyArray(d) == IsArray(d.expenses) \/ IsArray(d.budgets) \/ IsArray(d.savings)

\* What handleFile does with the text of the file: "stage", or the message
\* it shows.  JSON.parse throws on text that is no JSON; reading a property
\* of null throws a TypeError; both reach the catch block.
Staging(d) ==
  IF ~TypeofObject(d) THEN "Invalid backup file."
  ELSE IF d.tag = "null" THEN "Cannot read properties of null"
  ELSE IF ~AnyArray(d) THEN "Invalid backup file."
  ELSE "stage"

StagingErrors ==
  {"Cannot read properties of null", "Invalid backup file."}

\* The locals of runImport and the history of a run describe the current run
\* or, until the next action of the user, the run that ended last.
ForgetRun ==
  IF pc = "idle"
  THEN /\ payload' = NoPayload
       /\ snap' = NoSnap
       /\ kind' = "expenses"
       /\ idx' = 0
       /\ done' = 0
       /\ total' = 0
       /\ log' = <<>>
       /\ reports' = <<>>
       /\ outcome' = "none"
       /\ UNCHANGED pc
  ELSE UNCHANGED <<runVars, log, reports, outcome>>

\* The user selects a file (the change event of the hidden file input).
handleFile(name, d) ==
  /\ IF Staging(d) = "stage"
     THEN /\ pendingImport' = <<[name |-> name, payload |-> d]>>
          /\ applying' = FALSE
          /\ info' = "Ready to import"
     ELSE /\ info' = Staging(d)
          /\ UNCHANGED <<pendingImport, applying>>
  /\ ForgetRun
  /\ UNCHANGED <<serverVars, importing, importProgress, busy, counts, refreshes,
                 confirmed, runs>>

\* Fault: the two buttons stay rendered and enabled during a run.
ButtonsShown == pendingImport # <<>>

\* The Import Now and Cancel buttons are rendered while a document is
\* pending and no progress is shown, and are disabled while importing.
ButtonsEnabled == pendingImport # <<>> /\ importProgress = <<>> /\ ~importing

\* The Cancel button: setPendingImport(null).
Cancel ==
  /\ ButtonsEnabled
  /\ pendingImport' = <<>>
  /\ applying' = FALSE
  /\ ForgetRun
  /\ UNCHANGED <<serverVars, importing, importProgress, info, busy, counts,
                 refreshes, confirmed, runs>>

\* ------------------------------------------------------------------ runImport
\* Fault: the answer of the confirm dialog is not looked at.
ProceedsUnasked(ok) == pendingImport # <<>>

\* runImport returns at once without a pending document or when the user
\* dismisses the confirm dialog.
Proceeds(ok) == pendingImport # <<>> /\ ok

\* The Import Now button, with the answer ok of the confirm dialog: up to
\* the first await (the three list reads).
runImport(ok) ==
  /\ ButtonsEnabled
  /\ IF Proceeds(ok)
     THEN /\ payload' = pendingImport[1].payload
          /\ importing' = TRUE
          /\ importProgress' = <<Report("Clearing existing", 0, 1)>>
          /\ info' = ""
          /\ inflight' = inflight \cup {GetReq(k) : k \in KindSet}
          /\ pc' = "reading"
          /\ snap' = NoSnap
          /\ log' = <<>>
          /\ reports' = <<Report("Clearing existing", 0, 1)>>
          /\ confirmed' = ok
          /\ runs' = runs + 1
          /\ applying' = TRUE
          /\ outcome' = "none"
          /\ kind' = "expenses"
          /\ idx' = 0
          /\ done' = 0
          /\ total' = 0
          /\ UNCHANGED <<store, nextId, pendingImport, busy, counts, refreshes>>
     ELSE UNCHANGED vars

\* One of the three list reads is answered.
ReadSettles(k) ==
  /\ pc = "reading"
  /\ GetReq(k) \in inflight
  /\ LET sn == [snap EXCEPT ![k] = Ids(store, k)]
         infl == inflight \ {GetReq(k)}
         lg == log
     IN /\ snap' = sn
        /\ IF \E q \in infl : q.op = "get"
           THEN /\ inflight' = infl
                /\ log' = lg
                /\ UNCHANGED <<uiVars, pc, kind, idx, done, total, reports,
                               confirmed, outcome, applying>>
           ELSE /\ Resume(DeletePhase(payload, sn, "expenses"), infl, lg)
                /\ UNCHANGED counts
  /\ UNCHANGED <<store, nextId, payload, runs>>

\* One of the three list reads fails: Promise.all rejects.
ReadFails(k, m) ==
  /\ pc = "reading"
  /\ GetReq(k) \in inflight
  /\ Halt(m, inflight \ {GetReq(k)}, Append(log, Failed(GetReq(k), m)))
  /\ UNCHANGED <<store, nextId, counts, payload, snap, runs>>

\* The server carries out a delete.  The handler goes on when this was the
\* last delete it was waiting for; a delete nobody waits for any more only
\* changes the store.
DeleteSettles(r) ==
  /\ r \in inflight
  /\ r.op = "delete"
  /\ store' = ServerDelete(store, r.kind, r.id)
  /\ IF r.live
     THEN LET infl == inflight \ {r}
              lg == log
          IN IF \E q \in infl : q.op = "delete" /\ q.live
             THEN /\ inflight' = infl
                  /\ log' = lg
                  /\ UNCHANGED <<uiVars, pc, kind, idx, done, total, reports,
                                 confirmed, outcome, applying>>
             ELSE /\ Resume(AfterDeletes(payload, snap, r.kind), infl, lg)
                  /\ UNCHANGED counts
     ELSE /\ inflight' = inflight \ {r}
          /\ UNCHANGED <<uiVars, pc, kind, idx, done, total, log, reports,
                         confirmed, outcome, applying>>
  /\ UNCHANGED <<nextId, payload, snap, runs>>

\* Fault: the deletes are awaited with Promise.allSettled, so that a failed
\* delete counts as settled and the handler goes on.
DeleteFailsIgnored(r, m) ==
  /\ r \in inflight
  /\ r.op = "delete"
  /\ IF r.live
     THEN LET infl == inflight \ {r}
              lg == Append(log, Failed(r, m))
          IN IF \E q \in infl : q.op = "delete" /\ q.live
             THEN /\ inflight' = infl
                  /\ log' = lg
                  /\ UNCHANGED <<uiVars, pc, kind, idx, done, total, reports,
                                 confirmed, outcome, applying>>
             ELSE /\ Resume(AfterDeletes(payload, snap, r.kind), infl, lg)
                  /\ UNCHANGED counts
     ELSE /\ inflight' = inflight \ {r}
          /\ UNCHANGED <<uiVars, pc, kind, idx, done, total, log, reports,
                         confirmed, outcome, applying>>
  /\ UNCHANGED <<store, nextId, counts, payload, snap, runs>>

\* A delete fails: the Promise.all of its category rejects and the handler
\* leaves through catch, whatever else is still in flight.
DeleteFails(r, m) ==
  /\ r \in inflight
  /\ r.op = "delete"
  /\ IF r.live
     THEN Halt(m, inflight \ {r}, Append(log, Failed(r, m)))
     ELSE /\ inflight' = inflight \ {r}
          /\ UNCHANGED <<uiVars, pc, kind, idx, done, total, log, reports,
                         confirmed, outcome, applying>>
  /\ UNCHANGED <<store, nextId, counts, payload, snap, runs>>

\* const current = Number(s.current || 0); if (current > 0 && created?.id)
NeedsUpdate(s, id) == NumberOrZero(s.current) > 0 /\ id # 0

\* Fault: the update is addressed to the identifier of the document's record.
FollowUpStaleId(s, id) == UpdateReq("savings", s.id, [current |-> NumberOrZero(s.current)])

\* api.updateSaving(created.id, { current })
FollowUp(s, id) == UpdateReq("savings", id, [current |-> NumberOrZero(s.current)])

\* The server carries out the awaited create and answers with the created
\* record.  For a saving with progress the handler sends the follow-up
\* update to the identifier of the answer; otherwise it counts the record
\* and goes on.
CreateSettles(r) ==
  /\ r \in inflight
  /\ r.op = "create"
  /\ LET id == nextId[r.kind]
         infl == inflight \ {r}
         lg == Append(log, Ok(r, id))
         rec == Arr(payload, kind)[idx]
     IN /\ store' = ServerCreate(store, r.kind, id, r.body)
        /\ nextId' = [nextId EXCEPT ![r.kind] = id + 1]
        /\ IF r.kind = "savings" /\ NeedsUpdate(rec, id)
           THEN Resume(Suspended("updating", kind, idx, done, total,
                                 {FollowUp(rec, id)}),
                       infl, lg)
           ELSE Resume(AfterRecord(payload, kind, idx, done, total), infl, lg)
  /\ UNCHANGED <<counts, payload, snap, runs>>

\* The server carries out the awaited update of the saving just created.
UpdateSettles(r) ==
  /\ r \in inflight
  /\ r.op = "update"
  /\ store' = ServerUpdateSaving(store, r.id, r.body)
  /\ Resume(AfterRecord(payload, kind, idx, done, total), inflight \ {r},
            Append(log, Ok(r, 0)))
  /\ UNCHANGED <<nextId, counts, payload, snap, runs>>

\* The awaited create or update fails.
WriteFails(r, m) ==
  /\ r \in inflight
  /\ r.op \in {"create", "update"}
  /\ Halt(m, inflight \ {r}, Append(log, Failed(r, m)))
  /\ UNCHANGED <<store, nextId, counts, payload, snap, runs>>

\* --------------------------------------------------------------- refreshCounts
\* The three reads of a refreshCounts call are answered.
RefreshSettles ==
  /\ refreshes > 0
  /\ refreshes' = refreshes - 1
  /\ counts' = [k \in KindSet |-> Cardinality(store[k])]
  /\ busy' = FALSE
  /\ UNCHANGED <<serverVars, pendingImport, importing, importProgress, info,
                 runVars, histVars>>

\* A read of a refreshCounts call fails.
RefreshFails(m) ==
  /\ refreshes > 0
  /\ refreshes' = refreshes - 1
  /\ info' = m
  /\ busy' = FALSE
  /\ UNCHANGED <<serverVars, pendingImport, importing, importProgress, counts,
                 runVars, histVars>>

\* ------------------------------------------------- clearData and downloadJson
\* The other two handlers of the page that talk to the three tables.  Each
\* has its own requests; the model follows one call of each at a time.
VARIABLES
  clear,           \* clearData: pc ("idle", "reading", "deleting"), snap (identifiers
                   \* read into ex, bu, sa), kind (the category being deleted),
                   \* inflight (its requests not yet settled), and the history
                   \* outcome (how the last call ended), calls (confirmed calls so far)
  backup           \* downloadJson: pc ("idle", "reading"), inflight (its reads not
                   \* yet settled), snap (the lists read so far), file (<<>> or
                   \* <<payload>>: the file the last call has produced), and the history
                   \* errors (messages the last call has shown), calls (calls so far)

toolVars == <<clear, backup>>

\* Neither handler has been called.
ToolsIdle ==
  /\ clear = [pc |-> "idle", snap |-> <<>>, kind |-> "expenses", inflight |-> {},
              outcome |-> "none", calls |-> 0]
  /\ backup = [pc |-> "idle", inflight |-> {}, snap |-> <<>>, file |-> <<>>,
               errors |-> 0, calls |-> 0]

\* Handler calls (import, clear, export) started so far.
Ops == runs + clear.calls + backup.calls

\* The three awaited Promise.all of deletes of clearData, from category k on;
\* after the savings the handler reaches the end of its try block.
RECURSIVE ClearPhase(_, _)
ClearPhase(sn, k) ==
  IF sn[k] # {}
  THEN Suspended("deleting", k, 0, 0, 0, {DeleteReq(k, i) : i \in sn[k]})
  ELSE IF k = "savings" THEN Suspended("finish", k, 0, 0, 0, {})
  ELSE ClearPhase(sn, NextKind(k))

\* Fault: clearData stops after the first category it has deleted.
AfterClearDeletesEarly(sn, k) == Suspended("finish", k, 0, 0, 0, {})

\* What follows the settled deletes of category k.
AfterClearDeletes(sn, k) ==
  IF k = "savings" THEN Suspended("finish", k, 0, 0, 0, {}) ELSE ClearPhase(sn, NextKind(k))

\* clearData awaits on: one of the requests it waits for is settled, others
\* are still out.
ClearWaits(sn, infl) ==
  /\ clear' = [clear EXCEPT !.snap = sn, !.inflight = infl]
  /\ UNCHANGED <<info, refreshes, busy>>

\* clearData runs on from a settled await.  At the end of the try block it
\* shows the message and calls refreshCounts (which sets busy and issues its
\* reads); the finally block then resets busy.
ClearResume(eff, sn, infl) ==
  IF eff.pc = "finish"
  THEN /\ clear' = [clear EXCEPT !.snap = sn, !.inflight = infl \cup eff.reqs,
                                 !.kind = eff.kind, !.pc = "idle", !.outcome = "success"]
       /\ info' = "All data cleared."
       /\ refreshes' = refreshes + 1
       /\ busy' = FALSE
  ELSE /\ clear' = [clear EXCEPT !.snap = sn, !.inflight = infl \cup eff.reqs,
                                 !.kind = eff.kind, !.pc = eff.pc]
       /\ UNCHANGED <<info, refreshes, busy>>

\* The catch and finally blocks of clearData; the deletes it no longer waits
\* for stay in flight.
ClearHalt(m, infl) ==
  /\ clear' = [clear EXCEPT
                 !.inflight = {[r EXCEPT !.live = FALSE] : r \in {q \in infl : q.op # "get"}},
                 !.pc = "idle", !.outcome = "failed"]
  /\ info' = m
  /\ busy' = FALSE
  /\ UNCHANGED refreshes

\* The Clear All Data button, with the answer ok of the confirm dialog: up
\* to the first await (the three list reads).
clearData(ok) ==
  /\ clear.pc = "idle"
  /\ IF ok
     THEN /\ info' = ""
          /\ busy' = TRUE
          /\ clear' = [pc |-> "reading", snap |-> NoSnap, kind |-> "expenses",
                       inflight |-> clear.inflight \cup {GetReq(k) : k \in KindSet},
                       outcome |-> "none", calls |-> clear.calls + 1]
          /\ UNCHANGED <<serverVars, pendingImport, importing, importProgress, counts,
                         refreshes, runVars, histVars, backup>>
     ELSE UNCHANGED <<vars, toolVars>>

\* One of the three list reads of clearData is answered.
ClearReadSettles(k) ==
  /\ clear.pc = "reading"
  /\ GetReq(k) \in clear.inflight
  /\ LET sn == [clear.snap EXCEPT ![k] = Ids(store, k)]
         infl == clear.inflight \ {GetReq(k)}
     IN IF \E q \in infl : q.op = "get"
        THEN ClearWaits(sn, infl)
        ELSE ClearResume(ClearPhase(sn, "expenses"), sn, infl)
  /\ UNCHANGED <<serverVars, pendingImport, importing, importProgress, counts,
                 runVars, histVars, backup>>

\* One of the three list reads of clearData fails: Promise.all rejects.
ClearReadFails(k, m) ==
  /\ clear.pc = "reading"
  /\ GetReq(k) \in clear.inflight
  /\ ClearHalt(m, clear.inflight \ {GetReq(k)})
  /\ UNCHANGED <<serverVars, pendingImport, importing, importProgress, counts,
                 runVars, histVars, backup>>

\* The server carries out a delete of clearData.
ClearDeleteSettles(r) ==
  /\ r \in clear.inflight
  /\ r.op = "delete"
  /\ store' = ServerDelete(store, r.kind, r.id)
  /\ IF r.live /\ ~\E q \in clear.inflight \ {r} : q.op = "delete" /\ q.live
     THEN ClearResume(AfterClearDeletes(clear.snap, r.kind), clear.snap, clear.inflight \ {r})
     ELSE ClearWaits(clear.snap, clear.inflight \ {r})
  /\ UNCHANGED <<nextId, inflight, pendingImport, importing, importProgress, counts,
                 runVars, histVars, backup>>

\* A delete of clearData fails: the Promise.all of its category rejects.
ClearDeleteFails(r, m) ==
  /\ r \in clear.inflight
  /\ r.op = "delete"
  /\ IF r.live
     THEN ClearHalt(m, clear.inflight \ {r})
     ELSE ClearWaits(clear.snap, clear.inflight \ {r})
  /\ UNCHANGED <<serverVars, pendingImport, importing, importProgress, counts,
                 runVars, histVars, backup>>

\* The backup document downloadJson builds from the three lists.
BackupOf(sn) == [expenses |-> sn.expenses, budgets |-> sn.budgets, savings |-> sn.savings]

\* The Download JSON Backup button: up to the await of the three list reads.
downloadJson ==
  /\ backup.pc = "idle"
  /\ info' = ""
  /\ busy' = TRUE
  /\ backup' = [pc |-> "reading",
                inflight |-> backup.inflight \cup {GetReq(k) : k \in KindSet},
                snap |-> EmptyStore, file |-> <<>>, errors |-> 0,
                calls |-> backup.calls + 1]
  /\ UNCHANGED <<serverVars, pendingImport, importing, importProgress, counts,
                 refreshes, runVars, histVars, clear>>

\* A list read of downloadJson is answered.  With the last of the three the
\* file is built and handed to the browser; a read the handler no longer
\* waits for changes nothing.
ExportReadSettles(r) ==
  /\ r \in backup.inflight
  /\ IF r.live
     THEN LET sn == [backup.snap EXCEPT ![r.kind] = store[r.kind]]
          IN IF \E q \in backup.inflight \ {r} : q.live
             THEN /\ backup' = [backup EXCEPT !.snap = sn, !.inflight = @ \ {r}]
                  /\ UNCHANGED <<info, busy>>
             ELSE /\ backup' = [backup EXCEPT !.snap = sn, !.inflight = @ \ {r},
                                              !.file = <<BackupOf(sn)>>, !.pc = "idle"]
                  /\ info' = "Backup downloaded."
                  /\ busy' = FALSE
     ELSE /\ backup' = [backup EXCEPT !.inflight = @ \ {r}]
          /\ UNCHANGED <<info, busy>>
  /\ UNCHANGED <<serverVars, pendingImport, importing, importProgress, counts,
                 refreshes, runVars, histVars, clear>>

\* Fault: the catch block of downloadJson still writes what has been read.
ExportReadFailsPartial(r, m) ==
  /\ r \in backup.inflight
  /\ IF r.live
     THEN /\ backup' = [backup EXCEPT
                          !.inflight = {[q EXCEPT !.live = FALSE] : q \in backup.inflight \ {r}},
                          !.errors = @ + 1, !.pc = "idle",
                          !.file = <<BackupOf(backup.snap)>>]
          /\ info' = m
          /\ busy' = FALSE
     ELSE /\ backup' = [backup EXCEPT !.inflight = @ \ {r}]
          /\ UNCHANGED <<info, busy>>
  /\ UNCHANGED <<serverVars, pendingImport, importing, importProgress, counts,
                 refreshes, runVars, histVars, clear>>

\* A list read of downloadJson fails: Promise.all rejects with the first
\* failure, and the catch block shows its message.
ExportReadFails(r, m) ==
  /\ r \in backup.inflight
  /\ IF r.live
     THEN /\ backup' = [backup EXCEPT
                          !.inflight = {[q EXCEPT !.live = FALSE] : q \in backup.inflight \ {r}},
                          !.errors = @ + 1, !.pc = "idle"]
          /\ info' = m
          /\ busy' = FALSE
     ELSE /\ backup' = [backup EXCEPT !.inflight = @ \ {r}]
          /\ UNCHANGED <<info, busy>>
  /\ UNCHANGED <<serverVars, pendingImport, importing, importProgress, counts,
                 refreshes, runVars, histVars, clear>>

\* ------------------------------------------------------------ the other pages
\* The two pages that change one field of a stored record with a PUT (the
\* goal form and the contribute buttons of SavingsPage, and the adjust
\* buttons of the Budgets page; one of the two is open), and the session:
\* AuthProvider, the router of App, and the Login and Register pages.
VARIABLES
  ledger,          \* route ("/savings" or "/budgets"), rows (the page's copy of the
                   \* list: goals, list), inflight (its requests not yet settled),
                   \* err, and the history: sent (bodies of the creation requests
                   \* issued), calls (handler calls so far), opened (the list as
                   \* loaded), asked (for each row, what the buttons were to add),
                   \* edited (rows the form has changed), failed (failed requests)
  auth             \* AuthProvider: user (<<>> for null), loading; the router: route;
                   \* the browser: session (it holds a session cookie), requests (not
                   \* yet settled), timers (setTimeout calls not yet run); the mounted
                   \* Login or Register page: form (its instance), phase, mfaToken,
                   \* busy (its loading), err, info; and the history: calls (user
                   \* actions so far), last (what the user last did or was told)

\* The page is not open.
LedgerIdle == ledger = <<>>

\* The application shell is not modelled.
AuthIdle == auth = <<>>

\* The pages beside Settings, Reports and the CSV exports.
moreVars == <<ledger, auth>>

MoreIdle == LedgerIdle /\ AuthIdle

\* ================================================================ ReportsPage
\* Longest monthly series and longest category list of a report summary
\* (besides the worked examples below).
MaxMonths == 3
MaxCats == 3

\* useState(12), useState(3), useState(6)
DefaultMonthsWindow == 12
DefaultMaWindow == 3
DefaultCatLimit == 6

MonthValues == {-50, 0, 50, 100, 150}

CatValues == {-30, 0, 20, 50}

MonthLabels == <<"2025-01", "2025-02", "2025-03", "2025-04", "2025-05", "2025-06">>

CatNames == <<"A", "B", "C", "D", "E", "F">>

\* ReportSummary.monthly: [string, number][]
MonthlyOf(vs) == [i \in 1..Len(vs) |-> <<MonthLabels[i], vs[i]>>]

\* ReportSummary.byCat: { k, v }[]
ByCatOf(vs) == [i \in 1..Len(vs) |-> [k |-> CatNames[i], v |-> vs[i]]]

SeqsUpTo(S, n) == UNION {[1..m -> S] : m \in 0..n}

\* A field of the summary the server sends: absent (or another falsy value),
\* an array, or a truthy value that is no array.
AbsentField == [tag |-> "absent", items |-> <<>>]

ArrayOf(xs) == [tag |-> "array", items |-> xs]

MalformedFields == {[tag |-> t, items |-> <<>>] : t \in {"string", "number", "object"}}

MonthlyFields ==
  {ArrayOf(MonthlyOf(vs)) : vs \in SeqsUpTo(MonthValues, MaxMonths)}
  \cup {ArrayOf(MonthlyOf(<<100, 200, 300, 400>>)), ArrayOf(MonthlyOf(<<100, 100, 100, 1000>>))}
  \cup {AbsentField} \cup MalformedFields

ByCatFields ==
  {ArrayOf(ByCatOf(vs)) : vs \in SeqsUpTo(CatValues, MaxCats)}
  \cup {ArrayOf(ByCatOf(<<50, 30, 10, 5, 5>>))}
  \cup {AbsentField} \cup MalformedFields

MonthsWindows == {0, 1, 2, DefaultMonthsWindow}

MaWindows == {0, 1, 2, DefaultMaWindow}

CatLimits == {0, 1, 2, 5, DefaultCatLimit}

VARIABLES
  page,            \* ReportsPage: data (the report summary, once loaded), reply (<<>>
                   \* or <<summary>>: the answer to api.getReports() in flight), err,
                   \* and the controls monthsWindow, maWindow, catLimit
  view             \* what the last render has computed

reportVars == <<page, view>>

\* useState<MonthlyData | null>(null)
NoData == [loaded |-> FALSE, monthly |-> AbsentField, byCat |-> AbsentField]

Summary(m, c) == [loaded |-> TRUE, monthly |-> m, byCat |-> c]

\* (x || []).map(...) and (x || []).slice() throw a TypeError on a truthy
\* value that has no such method.
Throws ==
  page.data.monthly.tag \notin {"absent", "array"} \/ page.data.byCat.tag \notin {"absent", "array"}

\* (data?.monthly || []).map(([m]) => String(m))
monthlyLabelsAll == [i \in 1..Len(page.data.monthly.items) |-> page.data.monthly.items[i][1]]

\* (data?.monthly || []).map(([, v]) => Number(v || 0))
monthlyValuesAll == [i \in 1..Len(page.data.monthly.items) |-> page.data.monthly.items[i][2]]

Min(a, b) == IF a < b THEN a ELSE b

windowSize ==
  IF page.monthsWindow > 0
  THEN Min(page.monthsWindow, Len(monthlyLabelsAll))
  ELSE Len(monthlyLabelsAll)

\* arr.slice(-w): the last w entries, and the whole array for w = 0.
SliceLast(arr, w) ==
  IF w = 0 THEN arr ELSE SubSeq(arr, Len(arr) - w + 1, Len(arr))

monthlyLabels == SliceLast(monthlyLabelsAll, windowSize)

monthlyValues == SliceLast(monthlyValuesAll, windowSize)

RECURSIVE sum(_)
sum(arr) == IF arr = <<>> THEN 0 ELSE arr[1] + sum(Tail(arr))

\* The first position of the largest / smallest value (indexOf).
IndexOfMax(arr) ==
  CHOOSE i \in 1..Len(arr) :
    /\ \A j \in 1..Len(arr) : arr[j] <= arr[i]
    /\ \A j \in 1..(i - 1) : arr[j] < arr[i]

IndexOfMin(arr) ==
  CHOOSE i \in 1..Len(arr) :
    /\ \A j \in 1..Len(arr) : arr[j] >= arr[i]
    /\ \A j \in 1..(i - 1) : arr[j] > arr[i]

best ==
  IF monthlyValuesAll = <<>> THEN [label |-> "-", value |-> 0]
  ELSE [label |-> monthlyLabelsAll[IndexOfMax(monthlyValuesAll)],
        value |-> monthlyValuesAll[IndexOfMax(monthlyValuesAll)]]

worst ==
  IF monthlyValuesAll = <<>> THEN [label |-> "-", value |-> 0]
  ELSE [label |-> monthlyLabelsAll[IndexOfMin(monthlyValuesAll)],
        value |-> monthlyValuesAll[IndexOfMin(monthlyValuesAll)]]

\* A number that need not be an integer, as a fraction; null.
Null == [null |-> TRUE]

Fraction(n, d) == [null |-> FALSE, num |-> n, den |-> d]

\* Fault: the change is taken over the windowed series.
momWindowed ==
  IF Len(monthlyValues) < 2 THEN Null
  ELSE LET last == monthlyValues[Len(monthlyValues)]
           prev == monthlyValues[Len(monthlyValues) - 1]
       IN IF prev = 0 THEN Null ELSE Fraction((last - prev) * 100, prev)

\* ((last - prev) / prev) * 100
mom ==
  IF Len(monthlyValuesAll) < 2 THEN Null
  ELSE LET last == monthlyValuesAll[Len(monthlyValuesAll)]
           prev == monthlyValuesAll[Len(monthlyValuesAll) - 1]
       IN IF prev = 0 THEN Null ELSE Fraction((last - prev) * 100, prev)

\* Number((s / m).toFixed(2)), in hundredths: s / m rounded to the nearest
\* hundredth, a tie away from zero.
ToFixed2(s, m) ==
  IF s >= 0 THEN (200 * s + m) \div (2 * m) ELSE 0 - ((200 * (0 - s) + m) \div (2 * m))

NoValue == [none |-> TRUE, centi |-> 0]

Value(c) == [none |-> FALSE, centi |-> c]

\* Fault: one no-value marker too many (i < maWindow in place of
\* i + 1 < maWindow).
movingAvgLate ==
  IF page.maWindow <= 1 THEN <<>>
  ELSE [i \in 1..Len(monthlyValues) |->
          IF i <= page.maWindow THEN NoValue
          ELSE Value(ToFixed2(sum(SubSeq(monthlyValues, i - page.maWindow + 1, i)), page.maWindow))]

movingAvg ==
  IF page.maWindow <= 1 THEN <<>>
  ELSE [i \in 1..Len(monthlyValues) |->
          IF i < page.maWindow THEN NoValue
          ELSE Value(ToFixed2(sum(SubSeq(monthlyValues, i - page.maWindow + 1, i)), page.maWindow))]

categoriesRaw == page.data.byCat.items

\* Array.prototype.sort with (a, b) => b.v - a.v is stable: an entry comes
\* behind every larger entry and behind every equal entry that was before it.
RankDesc(s, i) ==
  Cardinality({j \in 1..Len(s) : s[j].v > s[i].v \/ (s[j].v = s[i].v /\ j < i)}) + 1

SortDesc(s) ==
  [r \in 1..Len(s) |-> s[CHOOSE i \in 1..Len(s) : RankDesc(s, i) = r]]

categoriesSorted == SortDesc(categoriesRaw)

\* arr.slice(0, n) and arr.slice(n) for n >= 0
SliceTo(arr, n) == SubSeq(arr, 1, Min(n, Len(arr)))

SliceFrom(arr, n) == SubSeq(arr, Min(n, Len(arr)) + 1, Len(arr))

catTop ==
  LET top == SliceTo(categoriesSorted, page.catLimit)
      rest == SliceFrom(categoriesSorted, page.catLimit)
      otherSum == sum([i \in 1..Len(rest) |-> rest[i].v])
  IN IF otherSum > 0 THEN top \o <<[k |-> "Other", v |-> otherSum]>> ELSE top

\* Fault: the mean is taken over the windowed series.
anomaliesWindowed ==
  LET n == Len(monthlyValues)
      whole == sum(monthlyValues)
  IN IF n = 0 \/ whole = 0 THEN <<>>
     ELSE SelectSeq([i \in 1..Len(monthlyValuesAll) |->
                       [label |-> monthlyLabelsAll[i], value |-> monthlyValuesAll[i]]],
                    LAMBDA m : \/ m.value * 10 * n > 13 * whole
                               \/ m.value * 10 * n < 7 * whole)

\* const a = avgMonthly || 0; if (!a) return []; then the months with
\* value > a * 1.3 || value < a * 0.7, where a = whole / n and n > 0.
anomalies ==
  LET n == Len(monthlyValuesAll)
      whole == sum(monthlyValuesAll)
  IN IF n = 0 \/ whole = 0 THEN <<>>
     ELSE SelectSeq([i \in 1..n |->
                       [label |-> monthlyLabelsAll[i], value |-> monthlyValuesAll[i]]],
                    LAMBDA m : \/ m.value * 10 * n > 13 * whole
                               \/ m.value * 10 * n < 7 * whole)

\* One render of the page: every derived value, or the TypeError that ends
\* the render.
Rendered ==
  IF Throws THEN [threw |-> TRUE]
  ELSE [threw |-> FALSE, monthlyLabels |-> monthlyLabels, monthlyValues |-> monthlyValues,
        best |-> best, worst |-> worst, mom |-> mom, movingAvg |-> movingAvg,
        catTop |-> catTop, anomalies |-> anomalies]

\* The state of the page: no data yet, the read in flight or settled, and the
\* controls.
Page(r, mw, ma, cl) ==
  [data |-> NoData, reply |-> r, err |-> "", monthsWindow |-> mw, maWindow |-> ma,
   catLimit |-> cl]

\* The page is not open.
ReportsIdle ==
  /\ page = <<>>
  /\ view = <<>>

\* The page has been mounted with some setting of its controls, has rendered
\* without data, and the summary it has asked for is on its way.  The
\* monthly series and the category list are varied one at a time.
ReportsMounted ==
  /\ \/ page \in {Page(<<Summary(m, ArrayOf(ByCatOf(<<50, 30, 10, 5, 5>>)))>>, mw, ma,
                        DefaultCatLimit) :
                     m \in MonthlyFields, mw \in MonthsWindows, ma \in MaWindows}
     \/ page \in {Page(<<Summary(ArrayOf(MonthlyOf(<<100, 150>>)), c)>>,
                        DefaultMonthsWindow, DefaultMaWindow, cl) :
                     c \in ByCatFields, cl \in CatLimits}
  /\ view = Rendered

\* ================================================================= CSV exports
\* Longest text of a field (besides the worked example below), in characters.
MaxText == 2

\* Text is a sequence of characters; what matters of a character is whether
\* it is a double quote, a comma, or neither.
Quote == "\""

Comma == ","

Chars == {"a", Comma, Quote}

Texts == SeqsUpTo(Chars, MaxText)

\* He said "hi"
SaidHi == <<"H", "e", " ", "s", "a", "i", "d", " ", Quote, "h", "i", Quote>>

\* A number of a row, as String(n) writes it, or "none" (null / undefined).
Numbers == {"none", "250"}

ExpenseRow(d, c, t, n) ==
  [table |-> "expenses", id |-> "7", date |-> d, category |-> c, description |-> t,
   amount |-> n]

BudgetRow(c, n) == [table |-> "budgets", category |-> c, limit |-> n]

SavingRow(t, n, m) == [table |-> "savings", name |-> t, target |-> n, current |-> m]

CsvRows ==
  {ExpenseRow(d, c, t, "250") : d \in Texts, c \in Texts, t \in Texts}
  \cup {ExpenseRow(<<"2", "0", "2", "5", "-", "0", "1", "-", "0", "5">>, <<"F", "o", "o", "d">>,
                   SaidHi, "250")}
  \cup {BudgetRow(c, n) : c \in Texts, n \in Numbers}
  \cup {SavingRow(t, n, "250") : t \in Texts, n \in Numbers}

VARIABLES
  csv              \* row (the one row of the table, at the server and on the Expenses
                   \* page), await ("none", or the table whose CSV export awaits its
                   \* read), file (<<>>, or <<file>>: the download that was offered)

csvVars == <<csv>>

\* s.replace(/"/g, '""')
RECURSIVE DoubleQuotes(_)
DoubleQuotes(s) ==
  IF s = <<>> THEN <<>>
  ELSE (IF s[1] = Quote THEN <<Quote, Quote>> ELSE <<s[1]>>) \o DoubleQuotes(Tail(s))

\* `"${(x || "").replace(/"/g, '""')}"`
Quoted(s) == <<Quote>> \o DoubleQuotes(s) \o <<Quote>>

\* A number as an element of the joined array: null and undefined give "".
Raw(n) == IF n = "none" THEN <<>> ELSE <<n>>

\* n ?? 0
OrZero(n) == IF n = "none" THEN <<"0">> ELSE <<n>>

\* cells.join(",")
RECURSIVE Join(_)
Join(cells) ==
  IF cells = <<>> THEN <<>>
  ELSE IF Len(cells) = 1 THEN cells[1]
  ELSE cells[1] \o <<Comma>> \o Join(Tail(cells))

File(name, headers, cells) ==
  [name |-> name, headers |-> headers, cells |-> cells, line |-> Join(cells)]

\* The cells of the row in each export.
ExpensesCsvCells(r) == <<r.date, Quoted(r.category), Quoted(r.description), Raw(r.amount)>>

BudgetsCsvCells(b) == <<Quoted(b.category), OrZero(b.limit)>>

SavingsCsvCells(g) == <<Quoted(g.name), OrZero(g.target), OrZero(g.current)>>

toCSV(r) ==
  File("expenses.csv", <<"id", "date", "category", "description", "amount">>,
       <<<<r.id>>, r.date, r.category, Quoted(r.description), Raw(r.amount)>>)

\* No export is under way and there is no row to export.
CsvIdle == csv = <<>>

CsvInputs == csv \in {[row |-> r, await |-> "none", file |-> <<>>] : r \in CsvRows}

Untouched ==
  UNCHANGED <<serverVars, pendingImport, importing, importProgress, counts, refreshes,
              runVars, histVars, toolVars, reportVars, moreVars>>

\* SettingsPage: setInfo(""), setBusy(true), and the read of the table.
downloadExpensesCsv ==
  /\ csv.await = "none"
  /\ csv.file = <<>>
  /\ csv.row.table = "expenses"
  /\ info' = ""
  /\ busy' = TRUE
  /\ csv' = [csv EXCEPT !.await = "expenses"]
  /\ Untouched

downloadBudgetsCsv ==
  /\ csv.await = "none"
  /\ csv.file = <<>>
  /\ csv.row.table = "budgets"
  /\ info' = ""
  /\ busy' = TRUE
  /\ csv' = [csv EXCEPT !.await = "budgets"]
  /\ Untouched

downloadSavingsCsv ==
  /\ csv.await = "none"
  /\ csv.file = <<>>
  /\ csv.row.table = "savings"
  /\ info' = ""
  /\ busy' = TRUE
  /\ csv' = [csv EXCEPT !.await = "savings"]
  /\ Untouched

\* The read answers: the file is built and offered, then setInfo, setBusy.
CsvReadSettles ==
  /\ csv.await # "none"
  /\ csv' =
       [csv EXCEPT
          !.await = "none",
          !.file =
            IF csv.await = "expenses"
            THEN <<File("expenses.csv", <<"Date", "Category", "Description", "Amount">>,
                        ExpensesCsvCells(csv.row))>>
            ELSE IF csv.await = "budgets"
            THEN <<File("budgets.csv", <<"Category", "Limit">>, BudgetsCsvCells(csv.row))>>
            ELSE <<File("savings.csv", <<"Name", "Target", "Current">>,
                        SavingsCsvCells(csv.row))>>]
  /\ info' =
       IF csv.await = "expenses" THEN "Expenses CSV exported."
       ELSE IF csv.await = "budgets" THEN "Budgets CSV exported."
       ELSE "Savings CSV exported."
  /\ busy' = FALSE
  /\ Untouched

\* The read fails: catch and finally.
CsvReadFails(m) ==
  /\ csv.await # "none"
  /\ info' = m
  /\ busy' = FALSE
  /\ csv' = [csv EXCEPT !.await = "none"]
  /\ Untouched

\* Expenses page: the rows on the page go to a file at once.
exportCSV ==
  /\ csv.await = "none"
  /\ csv.file = <<>>
  /\ csv.row.table = "expenses"
  /\ csv' = [csv EXCEPT !.file = <<toCSV(csv.row)>>]
  /\ UNCHANGED <<info, busy>>
  /\ Untouched

\* ------------------------------------------------- Savings and Budgets pages
\* Largest number of handler calls in one behaviour of these pages.
MaxClicks == 3

\* What the user has typed into the goal form: a name, a target, a current.
GoalNames == {"", " ", "Car"}

GoalForms ==
  {[name |-> n, target |-> t, current |-> c] :
      n \in GoalNames, t \in {0, 1000}, c \in {-5, 0, 500, 2000}}

\* The amounts of the contribute buttons and the deltas of the adjust buttons.
Amounts == {0, 1000, 200000}

Deltas == {100, -1000}

\* String.prototype.trim on the names above.
Trim(s) == IF s = " " THEN "" ELSE s

\* JavaScript values as JSON.stringify meets them.
JsString(s) == [type |-> "string", text |-> s]

JsNumber(n) == [type |-> "number", num |-> n]

JsObject(o) == [type |-> "object", obj |-> o]

JsUndefined == [type |-> "undefined"]

\* api.createSaving(name, target): the body is JSON.stringify({ name, target }),
\* which leaves out a key whose value is undefined.
createSaving(name, target) ==
  IF target.type = "undefined" THEN [name |-> name] ELSE [name |-> name, target |-> target]

\* The two saving-creation calls of seedDemoData.
DemoSavings ==
  {createSaving(JsString("Emergency Fund"), JsNumber(200000)),
   createSaving(JsString("New Phone"), JsNumber(150000))}

\* A request of these pages; n tells apart two requests with the same body.
PageReq(op, k, id, b, n) == [op |-> op, kind |-> k, id |-> id, body |-> b, n |-> n]

\* PUT /:kind/:id: the server overwrites the fields the body carries.
ServerPut(st, k, id, b) ==
  [st EXCEPT ![k] =
     {IF r.id = id THEN [f \in DOMAIN r |-> IF f \in DOMAIN b THEN b[f] ELSE r[f]] ELSE r :
        r \in @}]

\* The page has loaded its list.  The fields from sent on are history: the
\* bodies of the creation requests, the number of handler calls, the list as
\* loaded, the amounts the buttons of each row were to add, the rows the form
\* has edited, and the number of failed requests.
PageOpen(route, st) ==
  LET rows == IF route = "/savings" THEN st.savings ELSE st.budgets
  IN [route |-> route, rows |-> rows, inflight |-> {}, err |-> "", sent |-> {},
      calls |-> 0, opened |-> rows, asked |-> [i \in {r.id : r \in rows} |-> <<>>],
      edited |-> {}, failed |-> 0]

LedgerOpen == ledger \in {PageOpen(route, store) : route \in {"/savings", "/budgets"}}

\* The handler issues request rq and shows e; added is what a button is to
\* add to the stored amount, 0 for the form.
Issues(rq, added, e) ==
  [ledger EXCEPT !.err = e,
                 !.inflight = @ \cup {rq},
                 !.sent = IF rq.op = "create" THEN @ \cup {rq.body} ELSE @,
                 !.calls = @ + 1,
                 !.asked = IF added # 0 THEN [@ EXCEPT ![rq.id] = Append(@, added)] ELSE @,
                 !.edited = IF added = 0 /\ rq.op = "update" THEN @ \cup {rq.id} ELSE @]

\* A handler call that returns before it sends anything.
Returns(msg) == [ledger EXCEPT !.err = msg, !.calls = @ + 1]

\* The goal form is submitted with the input f; editId is 0 (null) or the
\* identifier of the goal being edited.
submitGoal(f, editId) ==
  /\ ledger.route = "/savings"
  /\ ledger' =
       IF Trim(f.name) = "" THEN Returns("Please enter a goal name")
       ELSE IF f.target <= 0 THEN Returns("Target must be greater than 0")
       ELSE IF f.current < 0 THEN Returns("Current cannot be negative")
       ELSE IF f.current > f.target THEN Returns("Current cannot exceed target")
       ELSE IF editId # 0
       THEN Issues(PageReq("update", "savings", editId,
                           [name |-> Trim(f.name), target |-> f.target,
                            current |-> f.current], ledger.calls), 0, "")
       ELSE Issues(PageReq("create", "savings", 0,
                           createSaving(JsObject([name |-> Trim(f.name), target |-> f.target,
                                                  current |-> f.current]),
                                        JsUndefined), ledger.calls), 0, "")
  /\ UNCHANGED vars

\* A contribute button of goal id with the amount a.
contribute(id, a) ==
  /\ ledger.route = "/savings"
  /\ ledger' =
       IF a <= 0 \/ ~\E g \in ledger.rows : g.id = id
       THEN [ledger EXCEPT !.calls = @ + 1]
       ELSE LET g == CHOOSE x \in ledger.rows : x.id = id
            IN Issues(PageReq("update", "savings", id,
                              [current |-> Min(g.target, g.current + a)], ledger.calls),
                      a, ledger.err)
  /\ UNCHANGED vars

\* An adjust button of budget id with the delta d.
adjustSpent(id, d) ==
  /\ ledger.route = "/budgets"
  /\ ledger' =
       IF ~\E b \in ledger.rows : b.id = id
       THEN [ledger EXCEPT !.calls = @ + 1]
       ELSE LET b == CHOOSE x \in ledger.rows : x.id = id
                next == IF b.spent + d < 0 THEN 0 ELSE b.spent + d
            IN Issues(PageReq("update", "budgets", id, [spent |-> next], ledger.calls),
                      d, ledger.err)
  /\ UNCHANGED vars

\* The server carries out an update and answers with the record as stored;
\* the handler puts the answer in the place of the row with that identifier.
PutSettles(r) ==
  /\ r \in ledger.inflight
  /\ r.op = "update"
  /\ store' = ServerPut(store, r.kind, r.id, r.body)
  /\ LET updated == CHOOSE x \in store'[r.kind] : x.id = r.id
     IN ledger' = [ledger EXCEPT
                     !.inflight = @ \ {r},
                     !.rows = {IF x.id = r.id THEN updated ELSE x : x \in @}]
  /\ UNCHANGED <<nextId, inflight, uiVars, runVars, histVars>>

\* A request fails: the catch block shows the message.  The server of this
\* repository's API is not part of the sources; the model has it reject a
\* creation request whose body is not {name: text, target: number}.
PageRequestFails(r, m) ==
  /\ r \in ledger.inflight
  /\ ledger' = [ledger EXCEPT !.inflight = @ \ {r}, !.err = m, !.failed = @ + 1]
  /\ UNCHANGED vars

\* ------------------------------------------- AuthProvider, Login and Register
\* Largest number of user actions (links, submissions, logout) in one
\* behaviour of the application shell.
MaxVisits == 3

\* The routes of App inside RequireAuth (two of the six) and outside it.
Protected == {"/", "/settings"}

Unguarded == {"/login", "/register"}

\* The user of the account, as the server names them.
TheUser == [id |-> 1, email |-> "a@b.c"]

\* Fault: the guard does not wait for the session check.
RequireAuthEager(a) == IF a.user = <<>> THEN "Navigate" ELSE "children"

\* RequireAuth: the placeholder, <Navigate to="/login" replace />, or the
\* protected children.
RequireAuth(a) ==
  IF a.loading THEN "Loading"
  ELSE IF a.user = <<>> THEN "Navigate"
  ELSE "children"

\* The router renders the page of route to; a page that was not on screen is
\* mounted with its initial state.
Mounted(a, to) ==
  IF a.route = to THEN a
  ELSE [a EXCEPT !.route = to, !.form = @ + 1, !.phase = "login", !.mfaToken = FALSE,
                 !.busy = FALSE, !.err = "", !.info = ""]

\* The application renders after a state change: RequireAuth of a protected
\* route may navigate to /login.
Routed(a) ==
  IF a.route \in Protected /\ RequireAuth(a) = "Navigate" THEN Mounted(a, "/login") ELSE a

\* What is on screen.
Screen ==
  IF auth.route = "/login" THEN "Login"
  ELSE IF auth.route = "/register" THEN "Register"
  ELSE IF RequireAuth(auth) # "children" THEN RequireAuth(auth)
  ELSE IF auth.route = "/" THEN "Dashboard"
  ELSE "Settings"

\* A request of the shell: the cookie the browser has attached, the page
\* instance whose handler awaits it, and a number to tell requests apart.
AuthReq(op, a) == [op |-> op, cookie |-> a.session, form |-> a.form, n |-> a.calls]

\* The application is opened at some route, with or without a session of an
\* earlier visit; the effect of AuthProvider has sent its session check.
AuthMounted ==
  \E r \in Protected \cup Unguarded, c \in BOOLEAN :
    auth = [user |-> <<>>, loading |-> TRUE, route |-> r, session |-> c,
            requests |-> {[op |-> "me", cookie |-> c, form |-> 0, n |-> 0]},
            timers |-> 0, form |-> 0, phase |-> "login", mfaToken |-> FALSE,
            busy |-> FALSE, err |-> "", info |-> "", calls |-> 0, last |-> "opened"]

\* A user action: one more call, and the history says which.
Acted(a, what) == [a EXCEPT !.calls = @ + 1, !.last = what]

\* A link of the Navbar.
Link(to) ==
  /\ auth' = Routed(Mounted(Acted(auth, "link"), to))
  /\ UNCHANGED <<vars, toolVars, reportVars, csvVars, ledger>>

\* setUser of the answer of /auth/me: data.user of a session, null on 401 or
\* on a failure.
SessionUser(r, fails) == IF fails \/ ~r.cookie THEN <<>> ELSE <<TheUser>>

\* The session check of the mount effect settles.
MeSettles(r, fails) ==
  /\ r \in auth.requests
  /\ r.op = "me"
  /\ auth' = Routed([auth EXCEPT !.requests = @ \ {r},
                                 !.user = SessionUser(r, fails),
                                 !.loading = FALSE])
  /\ UNCHANGED <<vars, toolVars, reportVars, csvVars, ledger>>

\* Login.handleSubmit, with valid saying whether the two client checks pass.
handleSubmit(valid) ==
  /\ auth.route = "/login"
  /\ auth.phase = "login"
  /\ ~auth.busy
  /\ auth' =
       IF ~valid THEN [Acted(auth, "login") EXCEPT !.err = "", !.info = ""]
       ELSE [Acted(auth, "login") EXCEPT
               !.err = "", !.info = "", !.busy = TRUE,
               !.requests = @ \cup {AuthReq("login", auth)}]
  /\ UNCHANGED <<vars, toolVars, reportVars, csvVars, ledger>>

\* What a handler of the Login or Register page leaves in the state of its
\* page when it ends: nothing when the page is no longer mounted.
FormEnds(a, r, e, i) ==
  IF a.form = r.form /\ a.route \in Unguarded
  THEN [a EXCEPT !.busy = FALSE, !.err = e, !.info = i]
  ELSE a

\* The handler of the Login page has its success: the server has set the
\* session cookie, and the handler calls navigate("/").
Entered(a, r) ==
  Routed(Mounted([FormEnds(a, r, "", "") EXCEPT !.session = TRUE, !.last = "entered"], "/"))

\* The answer to POST /auth/login arrives: ok, mfaRequired with or without a
\* token, or an error.
LoginSettles(r, ans) ==
  /\ r \in auth.requests
  /\ r.op = "login"
  /\ LET a == [auth EXCEPT !.requests = @ \ {r}]
     IN auth' =
          IF ans = "ok" THEN Entered(a, r)
          ELSE IF ans \in {"mfa", "mfaNoToken"}
          THEN IF a.form = r.form /\ a.route = "/login"
               THEN [a EXCEPT !.phase = "mfa", !.mfaToken = (ans = "mfa"), !.busy = FALSE,
                              !.info = "Enter the 6-digit authentication code"]
               ELSE a
          ELSE FormEnds(a, r, "Login failed", "")
  /\ UNCHANGED <<vars, toolVars, reportVars, csvVars, ledger>>

\* Login.handleMfaSubmit.
handleMfaSubmit ==
  /\ auth.route = "/login"
  /\ auth.phase = "mfa"
  /\ ~auth.busy
  /\ auth' =
       IF ~auth.mfaToken
       THEN [Acted(auth, "mfa") EXCEPT
               !.err = "MFA session expired. Please login again.", !.phase = "login"]
       ELSE [Acted(auth, "mfa") EXCEPT
               !.err = "", !.info = "", !.busy = TRUE,
               !.requests = @ \cup {AuthReq("mfa", auth)}]
  /\ UNCHANGED <<vars, toolVars, reportVars, csvVars, ledger>>

\* The answer to POST /auth/mfa/verify arrives.
MfaSettles(r, ok) ==
  /\ r \in auth.requests
  /\ r.op = "mfa"
  /\ LET a == [auth EXCEPT !.requests = @ \ {r}]
     IN auth' = IF ok THEN Entered(a, r) ELSE FormEnds(a, r, "MFA verification failed", "")
  /\ UNCHANGED <<vars, toolVars, reportVars, csvVars, ledger>>

\* Register.submit, with valid saying whether the client checks pass: it
\* awaits register(email, pw) of AuthProvider, which posts /auth/register.
submit(valid) ==
  /\ auth.route = "/register"
  /\ ~auth.busy
  /\ auth' =
       IF ~valid THEN [Acted(auth, "register") EXCEPT !.err = "Enter a valid email"]
       ELSE [Acted(auth, "register") EXCEPT
               !.err = "", !.info = "", !.busy = TRUE,
               !.requests = @ \cup {AuthReq("register", auth)}]
  /\ UNCHANGED <<vars, toolVars, reportVars, csvVars, ledger>>

\* register has returned to Register.submit: the page shows the message and
\* sets the timer that navigates to /login.
Registered(a, r) ==
  [FormEnds(a, r, "", "Account created successfully! Redirecting to login")
     EXCEPT !.timers = @ + 1]

\* The answer to POST /auth/register arrives: with the user in the body,
\* without (the server having set a session cookie or not), or an error.
\* Without a user in the body register awaits refresh().
RegisterSettles(r, ans) ==
  /\ r \in auth.requests
  /\ r.op = "register"
  /\ LET a == [auth EXCEPT !.requests = @ \ {r}]
     IN auth' =
          IF ans = "user"
          THEN Routed(Registered([a EXCEPT !.session = TRUE, !.user = <<TheUser>>], r))
          ELSE IF ans = "error" THEN FormEnds(a, r, "Registration failed", "")
          ELSE LET b == [a EXCEPT !.session = (@ \/ ans = "session")]
               IN [b EXCEPT !.requests = @ \cup {[AuthReq("refresh", b) EXCEPT !.form = r.form]}]
  /\ UNCHANGED <<vars, toolVars, reportVars, csvVars, ledger>>

\* The /auth/me request of refresh settles, and register returns.
SessionRefreshSettles(r, fails) ==
  /\ r \in auth.requests
  /\ r.op = "refresh"
  /\ auth' = Routed(Registered([auth EXCEPT !.requests = @ \ {r},
                                            !.user = SessionUser(r, fails)], r))
  /\ UNCHANGED <<vars, toolVars, reportVars, csvVars, ledger>>

\* The timer of Register.submit runs: navigate("/login").
TimerFires ==
  /\ auth.timers > 0
  /\ auth' = Routed(Mounted([auth EXCEPT !.timers = @ - 1], "/login"))
  /\ UNCHANGED <<vars, toolVars, reportVars, csvVars, ledger>>

\* The Logout button of the Navbar, shown when there is a user.
logout ==
  /\ auth.user # <<>>
  /\ auth' = [Acted(auth, "logout") EXCEPT !.requests = @ \cup {AuthReq("logout", auth)}]
  /\ UNCHANGED <<vars, toolVars, reportVars, csvVars, ledger>>

\* POST /auth/logout settles, in success (the server ends the session) or in
\* failure: setUser(null) in the finally block, and then navigate("/login").
LogoutSettles(r, fails) ==
  /\ r \in auth.requests
  /\ r.op = "logout"
  /\ auth' = Routed(Mounted([auth EXCEPT !.requests = @ \ {r},
                                         !.session = (@ /\ fails),
                                         !.user = <<>>,
                                         !.last = "loggedOut"], "/login"))
  /\ UNCHANGED <<vars, toolVars, reportVars, csvVars, ledger>>

\* --------------------------------------------------- the specification: import
\* The state of everything but the import flow.
pageVars == <<reportVars, csvVars, moreVars>>

PagesIdle == ReportsIdle /\ CsvIdle /\ MoreIdle

otherVars == <<toolVars, pageVars>>

OthersIdle == ToolsIdle /\ PagesIdle

allVars == <<vars, otherVars>>

\* The page with the restore flow alone: the user stages files and runs
\* imports, and does not touch the other buttons.
Next ==
  \/ (\E n \in FileNames, d \in Docs : handleFile(n, d)) /\ UNCHANGED otherVars
  \/ Cancel /\ UNCHANGED otherVars
  \/ (runs < MaxRuns /\ \E ok \in BOOLEAN : runImport(ok)) /\ UNCHANGED otherVars
  \/ (\E k \in KindSet : ReadSettles(k)) /\ UNCHANGED otherVars
  \/ (\E k \in KindSet, m \in ErrMsgs : ReadFails(k, m)) /\ UNCHANGED otherVars
  \/ (\E r \in inflight : DeleteSettles(r)) /\ UNCHANGED otherVars
  \/ (\E r \in inflight, m \in ErrMsgs : DeleteFails(r, m)) /\ UNCHANGED otherVars
  \/ (\E r \in inflight : CreateSettles(r)) /\ UNCHANGED otherVars
  \/ (\E r \in inflight : UpdateSettles(r)) /\ UNCHANGED otherVars
  \/ (\E r \in inflight, m \in ErrMsgs : WriteFails(r, m)) /\ UNCHANGED otherVars
  \/ RefreshSettles /\ UNCHANGED otherVars
  \/ (\E m \in ErrMsgs : RefreshFails(m)) /\ UNCHANGED otherVars

\* The Settings page is open; the user has touched nothing yet.
SettingsInit == Init /\ OthersIdle

Spec == SettingsInit /\ [][Next]_allVars

\* ------------------------------------------------- the specification: Settings
\* Largest number of handler calls (import, clear, export) in one behaviour of
\* the whole page.
MaxOps == 2

\* A hand-written backup whose only saving has more progress than its target.
OverTargetDoc ==
  ObjectDoc(EmptyField, EmptyField,
            [tag |-> "array",
             items |-> <<[id |-> 3, name |-> "Car", target |-> 100000,
                          current |-> 120000]>>])

SettingsDocs == {OverTargetDoc}

\* The page with all three handlers that write to or read from the tables.
SettingsNext ==
  \/ (\E n \in FileNames, d \in SettingsDocs : handleFile(n, d)) /\ UNCHANGED otherVars
  \/ Cancel /\ UNCHANGED otherVars
  \/ (Ops < MaxOps /\ runs < MaxRuns /\ \E ok \in BOOLEAN : runImport(ok))
       /\ UNCHANGED otherVars
  \/ (\E k \in KindSet : ReadSettles(k)) /\ UNCHANGED otherVars
  \/ (\E k \in KindSet, m \in ErrMsgs : ReadFails(k, m)) /\ UNCHANGED otherVars
  \/ (\E r \in inflight : DeleteSettles(r)) /\ UNCHANGED otherVars
  \/ (\E r \in inflight, m \in ErrMsgs : DeleteFails(r, m)) /\ UNCHANGED otherVars
  \/ (\E r \in inflight : CreateSettles(r)) /\ UNCHANGED otherVars
  \/ (\E r \in inflight : UpdateSettles(r)) /\ UNCHANGED otherVars
  \/ (\E r \in inflight, m \in ErrMsgs : WriteFails(r, m)) /\ UNCHANGED otherVars
  \/ RefreshSettles /\ UNCHANGED otherVars
  \/ (\E m \in ErrMsgs : RefreshFails(m)) /\ UNCHANGED otherVars
  \/ (Ops < MaxOps /\ \E ok \in BOOLEAN : clearData(ok)) /\ UNCHANGED pageVars
  \/ (\E k \in KindSet : ClearReadSettles(k)) /\ UNCHANGED pageVars
  \/ (\E k \in KindSet, m \in ErrMsgs : ClearReadFails(k, m)) /\ UNCHANGED pageVars
  \/ (\E r \in clear.inflight : ClearDeleteSettles(r)) /\ UNCHANGED pageVars
  \/ (\E r \in clear.inflight, m \in ErrMsgs : ClearDeleteFails(r, m)) /\ UNCHANGED pageVars
  \/ (Ops < MaxOps /\ downloadJson) /\ UNCHANGED pageVars
  \/ (\E r \in backup.inflight : ExportReadSettles(r)) /\ UNCHANGED pageVars
  \/ (\E r \in backup.inflight, m \in ErrMsgs : ExportReadFails(r, m)) /\ UNCHANGED pageVars

SpecSettings == SettingsInit /\ [][SettingsNext]_allVars

\* -------------------------------------------------- the specification: Reports
\* The restore flow is at rest on an empty account.
ImportIdle == Init /\ store = EmptyStore

\* api.getReports().then(setData): the summary arrives and the page renders
\* again.
ReloadSettles ==
  /\ page.reply # <<>>
  /\ page' = [page EXCEPT !.data = page.reply[1], !.reply = <<>>]
  /\ view' = Rendered'
  /\ UNCHANGED <<vars, toolVars, csvVars, moreVars>>

\* .catch(e => setErr(e.message)): no data, and the page renders again.
ReloadFails(m) ==
  /\ page.reply # <<>>
  /\ page' = [page EXCEPT !.err = m, !.reply = <<>>]
  /\ view' = Rendered'
  /\ UNCHANGED <<vars, toolVars, csvVars, moreVars>>

ReportsNext ==
  \/ ReloadSettles
  \/ \E m \in ErrMsgs : ReloadFails(m)

ReportsInit == ImportIdle /\ ToolsIdle /\ CsvIdle /\ MoreIdle /\ ReportsMounted

SpecReports == ReportsInit /\ [][ReportsNext]_allVars

\* ---------------------------------------------- the specification: CSV exports
CsvNext ==
  \/ downloadExpensesCsv
  \/ downloadBudgetsCsv
  \/ downloadSavingsCsv
  \/ CsvReadSettles
  \/ \E m \in ErrMsgs : CsvReadFails(m)
  \/ exportCSV

CsvInit == ImportIdle /\ ToolsIdle /\ ReportsIdle /\ MoreIdle /\ CsvInputs

SpecCsv == CsvInit /\ [][CsvNext]_allVars

\* ------------------------------------------ the specification: repeated imports
\* Largest number of confirmed import runs in one behaviour.
MaxAttempts == 2

\* A hand-written backup with one expense and one saving with progress.
RetryDoc == ObjectDoc(ArrayField("expenses", 1), EmptyField, ArrayField("savings", 1))

\* The restore flow alone, with a document the user may apply again after a
\* run has failed (or stage and apply again after a run has succeeded).
RetryNext ==
  \/ (\E n \in FileNames : handleFile(n, RetryDoc)) /\ UNCHANGED otherVars
  \/ Cancel /\ UNCHANGED otherVars
  \/ (runs < MaxAttempts /\ \E ok \in BOOLEAN : runImport(ok)) /\ UNCHANGED otherVars
  \/ (\E k \in KindSet : ReadSettles(k)) /\ UNCHANGED otherVars
  \/ (\E k \in KindSet, m \in ErrMsgs : ReadFails(k, m)) /\ UNCHANGED otherVars
  \/ (\E r \in inflight : DeleteSettles(r)) /\ UNCHANGED otherVars
  \/ (\E r \in inflight, m \in ErrMsgs : DeleteFails(r, m)) /\ UNCHANGED otherVars
  \/ (\E r \in inflight : CreateSettles(r)) /\ UNCHANGED otherVars
  \/ (\E r \in inflight : UpdateSettles(r)) /\ UNCHANGED otherVars
  \/ (\E r \in inflight, m \in ErrMsgs : WriteFails(r, m)) /\ UNCHANGED otherVars
  \/ RefreshSettles /\ UNCHANGED otherVars
  \/ (\E m \in ErrMsgs : RefreshFails(m)) /\ UNCHANGED otherVars

SpecRetry == SettingsInit /\ [][RetryNext]_allVars

\* ------------------------------------- the specification: Savings and Budgets
\* The state of everything but these two pages.
besideLedger == <<toolVars, reportVars, csvVars, auth>>

LedgerNext ==
  \/ (ledger.calls < MaxClicks /\ \E f \in GoalForms, e \in {0} \cup Ids(store, "savings") :
        submitGoal(f, e)) /\ UNCHANGED besideLedger
  \/ (ledger.calls < MaxClicks /\ \E g \in ledger.rows, a \in Amounts : contribute(g.id, a))
       /\ UNCHANGED besideLedger
  \/ (ledger.calls < MaxClicks /\ \E b \in ledger.rows, d \in Deltas : adjustSpent(b.id, d))
       /\ UNCHANGED besideLedger
  \/ (\E r \in ledger.inflight : PutSettles(r)) /\ UNCHANGED besideLedger
  \/ (\E r \in ledger.inflight, m \in ErrMsgs : PageRequestFails(r, m))
       /\ UNCHANGED besideLedger

\* An account with records; one of the two pages is open and has loaded them.
LedgerInit ==
  Init /\ store # EmptyStore /\ ToolsIdle /\ ReportsIdle /\ CsvIdle /\ AuthIdle /\ LedgerOpen

SpecLedger == LedgerInit /\ [][LedgerNext]_allVars

\* ---------------------------------------- the specification: session and routes
\* What the network and the timers do.
AuthSettles ==
  \/ \E r \in auth.requests, fails \in BOOLEAN : MeSettles(r, fails)
  \/ \E r \in auth.requests, ans \in {"ok", "mfa", "mfaNoToken", "error"} : LoginSettles(r, ans)
  \/ \E r \in auth.requests, ok \in BOOLEAN : MfaSettles(r, ok)
  \/ \E r \in auth.requests, ans \in {"user", "session", "plain", "error"} :
       RegisterSettles(r, ans)
  \/ \E r \in auth.requests, fails \in BOOLEAN : SessionRefreshSettles(r, fails)
  \/ TimerFires
  \/ \E r \in auth.requests, fails \in BOOLEAN : LogoutSettles(r, fails)

\* What the user does, and what the network and the timers do.
AuthNext ==
  \/ auth.calls < MaxVisits /\ \E to \in Protected \cup Unguarded : Link(to)
  \/ auth.calls < MaxVisits /\ \E valid \in BOOLEAN : handleSubmit(valid)
  \/ auth.calls < MaxVisits /\ handleMfaSubmit
  \/ auth.calls < MaxVisits /\ \E valid \in BOOLEAN : submit(valid)
  \/ auth.calls < MaxVisits /\ logout
  \/ AuthSettles

AuthInit ==
  ImportIdle /\ ToolsIdle /\ ReportsIdle /\ CsvIdle /\ LedgerIdle /\ AuthMounted

SpecAuth == AuthInit /\ [][AuthNext]_allVars

\* Every answer arrives and every timer runs in the end.
SpecAuthLive == SpecAuth /\ WF_allVars(AuthSettles)

\* ====================================================================== claims
Mutations == {"delete", "create", "update"}

Writes == {"create", "update"}

\* A request without the bookkeeping of who waits for it.
Wire(r) == [op |-> r.op, kind |-> r.kind, id |-> r.id, body |-> r.body]

\* The requests that are in flight after a step and were not before it.
NewlyIssued == {Wire(r) : r \in inflight'} \ {Wire(r) : r \in inflight}

RunEnded == pc = "idle" /\ outcome \in {"success", "failed"}

\* ---------------------------------------------------------------------- C1
\* The fields of a record that a backup is meant to preserve.
Content(k, r) ==
  IF k = "expenses"
  THEN [date |-> r.date, category |-> r.category, description |-> r.description,
        amount |-> r.amount]
  ELSE IF k = "budgets"
  THEN [category |-> r.category, limit |-> r.limit, spent |-> r.spent]
  ELSE [name |-> r.name, target |-> r.target, current |-> r.current]

InStore(k, c) == Cardinality({r \in store[k] : Content(k, r) = c})

InDoc(k, c) ==
  Cardinality({i \in 1..Len(Arr(payload, k)) : Content(k, Arr(payload, k)[i]) = c})

SameRecords(k) ==
  /\ \A r \in store[k] : InDoc(k, Content(k, r)) = InStore(k, Content(k, r))
  /\ \A i \in 1..Len(Arr(payload, k)) :
       InStore(k, Content(k, Arr(payload, k)[i])) = InDoc(k, Content(k, Arr(payload, k)[i]))

\* C1: after an import run has succeeded, the expenses, budgets and savings
\* of the store are the records of the applied document in every field but
\* the identifier, with the same multiplicity.
C1_RoundTrip == outcome = "success" => \A k \in KindSet : SameRecords(k)

\* ---------------------------------------------------------------------- C2
\* A parsed document that is no object, or has no array among its three fields.
NotABackup(d) ==
  \/ d.tag # "object"
  \/ d.expenses.tag # "array" /\ d.budgets.tag # "array" /\ d.savings.tag # "array"

\* The documents of the model that handleFile has to reject.
RejectedDocs == {d \in Docs : NotABackup(d)}

\* C2: handleFile on a document that is no object or has none of the three
\* arrays issues no request, shows an error, and leaves the pending import
\* as it was.
C2_StagingRejection ==
  [][\A n \in FileNames, d \in RejectedDocs :
       handleFile(n, d) =>
         /\ inflight' = inflight
         /\ refreshes' = refreshes
         /\ store' = store
         /\ pendingImport' = pendingImport
         /\ info' \in StagingErrors]_vars

\* A file was rejected while another document stays staged and is being applied.
C2_Witness == info \in StagingErrors /\ pendingImport # <<>> /\ importing

\* ---------------------------------------------------------------------- C3
\* C3: a delete, create or update request is issued only in a run the user
\* has confirmed, a run is confirmed only while a document is pending, and
\* selecting a file issues no request.
C3_NoImplicitImport ==
  [][/\ (\E w \in NewlyIssued : w.op \in Mutations) => confirmed
     /\ (confirmed' /\ ~confirmed) => pendingImport # <<>>
     /\ NewlyIssued = {} \/ ~(\E n \in FileNames, d \in Docs : handleFile(n, d))]_vars

\* A confirmed run has a delete in flight.
C3_Witness == confirmed /\ \E r \in inflight : r.op = "delete" /\ r.live

\* ---------------------------------------------------------------------- C4
IsCreateIssue(e) == e.ev = "issue" /\ \E r \in e.reqs : r.op = "create"

CreateIssues == SelectSeq(log, IsCreateIssue)

CreatesOf(p, k) == [i \in 1..Len(Arr(p, k)) |-> CreateReq(k, CreateBody(k, Arr(p, k)[i]))]

\* The create requests of a document in the order of step 3.
ExpectedCreates(p) == CreatesOf(p, "expenses") \o CreatesOf(p, "budgets") \o CreatesOf(p, "savings")

\* C4: at most one create is in flight; no create is in flight while a read
\* or delete of the run is unsettled; the creates are issued in the order
\* expenses, budgets, savings and within a category in document order; and
\* every request of step 3 is issued only after the one before it was
\* answered.
C4_RecreationOrder ==
  /\ Cardinality({r \in inflight : r.op = "create"}) <= 1
  /\ (\E r \in inflight : r.op = "create") =>
       ~\E q \in inflight : q.op \in {"get", "delete"} /\ q.live
  /\ Len(CreateIssues) <= Len(ExpectedCreates(payload))
  /\ \A j \in 1..Len(CreateIssues) : CreateIssues[j].reqs = {ExpectedCreates(payload)[j]}
  /\ \A j \in 2..Len(log) : log[j].ev = "issue" => log[j - 1].ev = "ok"

\* Old records were deleted, all expenses and budgets of the document were
\* created, and the first saving is being created.
C4_Witness ==
  /\ \E r \in inflight : r.op = "create" /\ r.kind = "savings"
  /\ snap["expenses"] # {}
  /\ Cardinality(store["expenses"]) = MaxLen
  /\ Cardinality(store["budgets"]) = MaxLen

\* ---------------------------------------------------------------------- C5
IsSavingCreated(e) ==
  e.ev = "ok" /\ \E r \in e.reqs : r.op = "create" /\ r.kind = "savings"

IsUpdateIssue(e) == e.ev = "issue" /\ \E r \in e.reqs : r.op = "update"

\* The position in payload.savings of the saving created at entry j of the log.
SavingNo(j) == Cardinality({i \in 1..j : IsSavingCreated(log[i])})

\* C5 as stated: every created saving is at once followed by an update sent
\* to the identifier the creation returned.
C5_EverySavingUpdated ==
  \A j \in 1..Len(log) :
    IsSavingCreated(log[j]) =>
      /\ j < Len(log)
      /\ IsUpdateIssue(log[j + 1])
      /\ \A r \in log[j + 1].reqs : r.id = log[j].id

\* C5 as amended: a created saving whose current amount in the document is
\* greater than 0 is at once followed by the update of that amount, sent to
\* the identifier the creation returned, and nothing is issued before that
\* update is answered; a saving whose current amount is 0 gets no update.
C5_SavingsWithProgressUpdated ==
  /\ \A j \in 1..Len(log) :
       IsSavingCreated(log[j]) =>
         LET s == payload.savings.items[SavingNo(j)]
         IN IF s.current > 0
            THEN /\ j < Len(log)
                 /\ log[j + 1] =
                      Issued({UpdateReq("savings", log[j].id, [current |-> s.current])})
            ELSE j = Len(log) \/ ~IsUpdateIssue(log[j + 1])
  /\ \A j \in 1..Len(log) :
       (IsUpdateIssue(log[j]) /\ j < Len(log)) =>
         /\ log[j + 1].ev \in {"ok", "fail"}
         /\ log[j + 1].reqs = log[j].reqs

\* A saving was created, its update was answered, and the store holds its amount.
C5_Witness ==
  /\ \E j \in 1..Len(log) : log[j].ev = "ok" /\ \E r \in log[j].reqs : r.op = "update"
  /\ \E r \in store["savings"] : r.current = 60000 /\ r.name = "New Phone"

\* ---------------------------------------------------------------------- C6
IsFailureOf(e, ops) == e.ev = "fail" /\ \E r \in e.reqs : r.op \in ops

\* The run has ended with the failure of a create or update request.
WriteFailed == \E j \in 1..Len(log) : IsFailureOf(log[j], Writes)

\* C6: when a create or update of step 3 fails, the failure is the last
\* request of the run (none is in flight, none is issued later), the pending
\* document stays staged as it was, the message of the failed request is
\* shown, and the run does not report success.
C6_RecreationFailure ==
  [][WriteFailed' =>
       /\ IsFailureOf(Last(log'), Writes)
       /\ ~\E r \in inflight' : r.op \in Writes
       /\ ~importing'
       /\ outcome' = "failed"
       /\ (log' # log) =>
            /\ pendingImport' = pendingImport
            /\ pendingImport' # <<>>
            /\ info' = Last(log').msg
            /\ store' = store]_vars

\* A create failed after an earlier record had been created; the document
\* is still pending and the message of the failure is shown.
C6_Witness ==
  /\ WriteFailed
  /\ Len(log) > 2
  /\ pendingImport # <<>>
  /\ info = Last(log).msg

\* ---------------------------------------------------------------------- C7
\* The run has ended with the failure of a list read or of a delete.
ClearFailed == \E j \in 1..Len(log) : IsFailureOf(log[j], {"get", "delete"})

\* C7: when a read of step 1 or a delete of step 2 fails, the run ends
\* there: it has issued no create or update and issues none, nothing is
\* added to the store afterwards, the pending document stays staged and the
\* message of the failure is shown.
C7_DeletionFailure ==
  [][ClearFailed' =>
       /\ Len(log') = 1
       /\ ~\E r \in inflight' : r.op \in Writes
       /\ ~importing'
       /\ outcome' = "failed"
       /\ \A k \in KindSet : store'[k] \subseteq store[k]
       /\ (log' # log) =>
            /\ pendingImport' = pendingImport
            /\ pendingImport' # <<>>
            /\ info' = Last(log').msg
            /\ store' = store]_vars

\* A delete failed after another expense had been deleted: one of the two
\* expenses is gone, the other is still there, the document is pending.
C7_Witness ==
  /\ ClearFailed
  /\ IsFailureOf(Last(log), {"delete"})
  /\ store["expenses"] # {}
  /\ Cardinality(store["expenses"]) < Cardinality(snap["expenses"])
  /\ pendingImport # <<>>

\* ---------------------------------------------------------------------- C8
\* |expenses| + |budgets| + |savings| of a document, an absent array counting 0.
DocSize(p) == Len(p.expenses.items) + Len(p.budgets.items) + Len(p.savings.items)

\* The progress reports of step 3 (the first report of a run is "Clearing existing").
Step3Reports == SubSeq(reports, 2, Len(reports))

IsCreated(e) == e.ev = "ok" /\ \E r \in e.reqs : r.op = "create"

IsUpdated(e) == e.ev = "ok" /\ \E r \in e.reqs : r.op = "update"

\* The records the server has created in this run.
CreatedCount == Cardinality({j \in 1..Len(log) : IsCreated(log[j])})

\* The records whose restoration is complete: created and, where the
\* handler sent a follow-up update, updated.
RestoredCount ==
  Cardinality({j \in 1..Len(log) :
     \/ IsUpdated(log[j])
     \/ IsCreated(log[j]) /\ ~(j < Len(log) /\ IsUpdateIssue(log[j + 1]))})

\* C8 as stated: the completed count has risen by one for every record that
\* was created, so that the last report of a run that has ended counts the
\* records the run created.
C8_CountsCreatedRecords ==
  (RunEnded /\ Len(reports) >= 2) => Last(reports).current = CreatedCount

\* C8 as amended: every report of step 3 carries the total
\* |expenses| + |budgets| + |savings| of the document; the completed count
\* starts at 0, never falls, rises by one at a time, stays within 0..total and
\* is always the number of records restored so far, where a saving with a
\* follow-up update counts once that update has succeeded; it is the total
\* when the run succeeds.
C8_ProgressReports ==
  Len(reports) >= 2 =>
    /\ \A j \in 1..Len(Step3Reports) :
         /\ Step3Reports[j].total = DocSize(payload)
         /\ Step3Reports[j].current \in 0..DocSize(payload)
    /\ Step3Reports[1].current = 0
    /\ \A j \in 2..Len(Step3Reports) :
         Step3Reports[j].current - Step3Reports[j - 1].current \in {0, 1}
    /\ Last(reports).current = RestoredCount
    /\ outcome = "success" => Last(reports).current = DocSize(payload)

\* Mid-run: some but not all records are restored and reported.
C8_Witness ==
  /\ pc = "creating"
  /\ Len(reports) >= 3
  /\ Last(reports).current >= 1
  /\ Last(reports).current < Last(reports).total
  /\ importProgress = <<Last(reports)>>

\* ---------------------------------------------------------------------- C9
\* C9: a pending document is discarded only by Cancel or by the success of
\* the run that applied that document.
C9_PendingLifecycle ==
  [][(pendingImport # <<>> /\ pendingImport' = <<>>) =>
       (Cancel \/ (outcome' = "success" /\ applying))]_vars

\* --------------------------------------------------------------------- C10
IsEmptyBackup(p) ==
  /\ p.tag = "object"
  /\ \A k \in KindSet : p[k].tag = "array" /\ p[k].items = <<>>

\* C10: a run that applies a document of three empty arrays and succeeds
\* leaves no record in the store, has issued no create or update, has
\* reported progress with total 0, clears the pending document and shows the
\* success message; such a run fails only when a request has failed.
C10_EmptyDocument ==
  [][(pc # "idle" /\ pc' = "idle" /\ IsEmptyBackup(payload')) =>
       IF outcome' = "success"
       THEN /\ \A k \in KindSet : store'[k] = {}
            /\ log' = <<>>
            /\ Len(reports') >= 2
            /\ \A j \in 2..Len(reports') : reports'[j].total = 0 /\ reports'[j].current = 0
            /\ pendingImport' = <<>>
            /\ info' = "Import completed."
       ELSE Len(log') = 1 /\ Last(log').ev = "fail"]_vars

\* The empty backup was applied to a store that had records; none is left.
C10_Witness ==
  /\ outcome = "success"
  /\ IsEmptyBackup(payload)
  /\ snap["expenses"] # {} /\ snap["budgets"] # {} /\ snap["savings"] # {}
  /\ \A k \in KindSet : store[k] = {}

\* --------------------------------------------------------------------- C11
\* C11: downloadJson issues list reads only and changes neither the store nor
\* the requests of the other handlers; when one of its reads fails the call
\* ends at once with one error message shown and without a file, and neither
\* a later answer nor a later failure of the reads still in flight produces a
\* file or another message.
C11_ExportReadOnly ==
  [][/\ \A r \in backup.inflight' : r.op = "get"
     /\ (backup.inflight' # backup.inflight) =>
          /\ store' = store
          /\ nextId' = nextId
          /\ inflight' = inflight
          /\ clear.inflight' = clear.inflight
     /\ (\E r \in backup.inflight, m \in ErrMsgs : r.live /\ ExportReadFails(r, m)) =>
          /\ backup.file' = <<>>
          /\ backup.errors' = 1
          /\ backup.pc' = "idle"
          /\ info' \in ErrMsgs
     /\ (backup.errors = 1 /\ backup.calls' = backup.calls) =>
          (backup.file' = <<>> /\ backup.errors' = 1)
     /\ (backup.file' # <<>>) => backup.errors' = 0]_allVars

\* A read of the export has failed while the other two were in flight; one
\* of them has since been answered and one is still in flight.
C11_Witness ==
  /\ backup.errors = 1
  /\ backup.pc = "idle"
  /\ backup.file = <<>>
  /\ Cardinality(backup.inflight) = 1
  /\ \A k \in KindSet : store[k] # {}

\* --------------------------------------------------------------------- C12
\* The delete requests of clearData in flight after a step that were not
\* before it.
NewClearDeletes ==
  {Wire(r) : r \in {q \in clear.inflight' : q.op = "delete"}} \ {Wire(r) : r \in clear.inflight}

\* C12: clearData issues list reads and deletes only; a call that ends in
\* success while no import has run leaves all three tables empty; deletes
\* are issued only once all three reads have been answered, and a failing
\* read ends the call without any delete.
C12_ClearAll ==
  [][/\ \A r \in clear.inflight' : r.op \in {"get", "delete"}
     /\ (clear.inflight' # clear.inflight) => (inflight' = inflight /\ nextId' = nextId)
     /\ (clear.pc # "idle" /\ clear.pc' = "idle" /\ clear.outcome' = "success" /\ runs' = 0) =>
          \A k \in KindSet : store'[k] = {}
     /\ (NewClearDeletes # {}) =>
          /\ clear.pc' = "deleting"
          /\ ~\E q \in clear.inflight' : q.op = "get"
     /\ (\E k \in KindSet, m \in ErrMsgs : ClearReadFails(k, m)) =>
          /\ NewClearDeletes = {}
          /\ clear.pc' = "idle"
          /\ clear.outcome' = "failed"
          /\ store' = store]_allVars

\* clearData has succeeded on a store that had records in all three tables.
C12_Witness ==
  /\ clear.outcome = "success"
  /\ clear.pc = "idle"
  /\ runs = 0
  /\ \A k \in KindSet : clear.snap[k] # {} /\ store[k] = {}

\* --------------------------------------------------------------------- C13
\* C13: every saving in the store has 0 <= current <= target (the store
\* starts that way and only the client writes to it).
C13_SavingBounds ==
  \A r \in store["savings"] : 0 <= r.current /\ r.current <= r.target

\* --------------------------------------------------------------------- C20
\* The categories the handlers delete before category k.
Before(k) ==
  IF k = "expenses" THEN {} ELSE IF k = "budgets" THEN {"expenses"}
  ELSE {"expenses", "budgets"}

\* C20 as stated: once the list reads of an import run or of a clearData call
\* have been answered, the deletes of every category are in flight, whatever
\* becomes of the deletes of another category.
C20_CategoriesIndependent ==
  [][/\ (pc = "reading" /\ pc' \notin {"reading", "idle"}) =>
          \A k \in KindSet : \A i \in snap'[k] : DeleteReq(k, i) \in inflight'
     /\ (clear.pc = "reading" /\ clear.pc' \notin {"reading", "idle"}) =>
          \A k \in KindSet : \A i \in clear.snap'[k] : DeleteReq(k, i) \in clear.inflight']_allVars

\* C20 as amended: the deletes of one category are issued together; a delete
\* the handler waits for belongs to the category the handler is at, and the
\* handler is at a category only when every record it read of the categories
\* before it is gone from the store; so a delete that fails or is slow keeps
\* back the deletes of the categories after it.
C20_CategoriesInOrder ==
  /\ \A r \in inflight :
       (r.op = "delete" /\ r.live) =>
         /\ pc = "deleting"
         /\ r.kind = kind
         /\ r.id \in snap[kind]
         /\ \A k \in Before(kind) : snap[k] \cap Ids(store, k) = {}
  /\ \A r \in clear.inflight :
       (r.op = "delete" /\ r.live) =>
         /\ clear.pc = "deleting"
         /\ r.kind = clear.kind
         /\ r.id \in clear.snap[clear.kind]
         /\ \A k \in Before(clear.kind) : clear.snap[k] \cap Ids(store, k) = {}
  /\ pc = "deleting" =>
       \A i \in snap[kind] :
         i \in Ids(store, kind) => \E r \in inflight : r.op = "delete" /\ r.id = i /\ r.kind = kind
  /\ clear.pc = "deleting" =>
       \A i \in clear.snap[clear.kind] :
         i \in Ids(store, clear.kind) =>
           \E r \in clear.inflight \cup inflight : r.op = "delete" /\ r.id = i /\ r.kind = clear.kind

\* A delete of an expense has failed in clearData, and in an import run
\* before it: the budgets and savings that were read are all still there.
C20_Witness ==
  /\ clear.outcome = "failed"
  /\ clear.kind = "expenses"
  /\ clear.snap["budgets"] # {} /\ clear.snap["budgets"] \subseteq Ids(store, "budgets")
  /\ clear.snap["savings"] # {} /\ clear.snap["savings"] \subseteq Ids(store, "savings")
  /\ Cardinality(store["expenses"]) < Cardinality(clear.snap["expenses"])

\* ---------------------------------------------------------------- reports
\* The summary has arrived and the page has rendered it to the end.
Shown == page.data.loaded /\ ~view.threw

Abs(x) == IF x < 0 THEN 0 - x ELSE x

\* The inputs [i-M+1..i] of the windowed series the page shows.
WindowAt(i) == SubSeq(view.monthlyValues, i - page.maWindow + 1, i)

\* C14 (as stated): for every window size M >= 1 the moving average is as
\* long as the windowed series, its first M-1 entries are the no-value
\* marker, and every later entry is exactly the arithmetic mean of the M
\* inputs that end at it.
C14_MovingAverageExact ==
  (Shown /\ page.maWindow >= 1) =>
    /\ Len(view.movingAvg) = Len(view.monthlyValues)
    /\ \A i \in 1..Len(view.movingAvg) :
         IF i < page.maWindow THEN view.movingAvg[i].none
         ELSE /\ ~view.movingAvg[i].none
              /\ view.movingAvg[i].centi * page.maWindow = 100 * sum(WindowAt(i))

\* C14 (amended): for every window size M >= 2 the moving average is as long
\* as the windowed series, its first M-1 entries are the no-value marker, and
\* every later entry is the mean of the M inputs that end at it, rounded to
\* two decimals; for a window size below 2 the moving average is empty.
C14_MovingAverageRounded ==
  Shown =>
    IF page.maWindow >= 2
    THEN /\ Len(view.movingAvg) = Len(view.monthlyValues)
         /\ \A i \in 1..Len(view.movingAvg) :
              IF i < page.maWindow THEN view.movingAvg[i].none
              ELSE /\ ~view.movingAvg[i].none
                   /\ 2 * Abs(view.movingAvg[i].centi * page.maWindow - 100 * sum(WindowAt(i)))
                        <= page.maWindow
    ELSE view.movingAvg = <<>>

\* [100, 200, 300, 400] with M = 3 is shown as [none, none, 200, 300].
C14_Witness ==
  /\ Shown
  /\ page.maWindow = 3
  /\ view.monthlyValues = <<100, 200, 300, 400>>
  /\ view.movingAvg = <<NoValue, NoValue, Value(20000), Value(30000)>>

\* The place of a category in the list the server sent.
PlaceOf(name) == CHOOSE i \in 1..Len(page.data.byCat.items) : page.data.byCat.items[i].k = name

\* Entry x is ahead of entry y in descending order with ties in input order.
Ahead(x, y) == x.v > y.v \/ (x.v = y.v /\ PlaceOf(x.k) < PlaceOf(y.k))

\* C15: the category figure is the first catLimit entries of the list sorted
\* descending by amount, ties in input order, followed by one "Other" entry
\* holding the sum of all remaining entries, which is left out exactly when
\* that sum is zero (negative totals included).
C15_TopNOther ==
  Shown =>
    LET raw == page.data.byCat.items
        t == Min(page.catLimit, Len(raw))
        top == SubSeq(view.catTop, 1, Min(t, Len(view.catTop)))
        others == {raw[i] : i \in 1..Len(raw)} \ {top[i] : i \in 1..Len(top)}
        otherSum == sum([i \in 1..Len(raw) |-> raw[i].v]) - sum([i \in 1..Len(top) |-> top[i].v])
    IN /\ Len(top) = t
       /\ \A i \in 1..t : \E j \in 1..Len(raw) : top[i] = raw[j]
       /\ \A i, j \in 1..t : i < j => Ahead(top[i], top[j])
       /\ \A i \in 1..t : \A y \in others : Ahead(top[i], y)
       /\ view.catTop =
            IF otherSum = 0 THEN top ELSE top \o <<[k |-> "Other", v |-> otherSum]>>

\* The same with "Other" left out whenever the remaining sum is not positive,
\* which is what the page computes.
C15_OtherWhenPositive ==
  Shown =>
    LET raw == page.data.byCat.items
        t == Min(page.catLimit, Len(raw))
        top == SubSeq(view.catTop, 1, Min(t, Len(view.catTop)))
        others == {raw[i] : i \in 1..Len(raw)} \ {top[i] : i \in 1..Len(top)}
        otherSum == sum([i \in 1..Len(raw) |-> raw[i].v]) - sum([i \in 1..Len(top) |-> top[i].v])
    IN /\ Len(top) = t
       /\ \A i \in 1..t : \E j \in 1..Len(raw) : top[i] = raw[j]
       /\ \A i, j \in 1..t : i < j => Ahead(top[i], top[j])
       /\ \A i \in 1..t : \A y \in others : Ahead(top[i], y)
       /\ view.catTop =
            IF otherSum > 0 THEN top \o <<[k |-> "Other", v |-> otherSum]>> ELSE top

\* The last two entries of the full series the server sent.
LastOfAll == page.data.monthly.items[Len(page.data.monthly.items)][2]

PrevOfAll == page.data.monthly.items[Len(page.data.monthly.items) - 1][2]

\* C16: the month-over-month change is (last - prev) / prev * 100 over the
\* last two entries of the full monthly series, whatever the months window,
\* and is undefined when the series has fewer than two entries or prev = 0:
\* [0, 50] gives undefined, [50, 0] gives -100, [100, 150] gives +50.
C16_MonthOverMonth ==
  Shown =>
    /\ IF Len(page.data.monthly.items) < 2 \/ PrevOfAll = 0
       THEN view.mom = Null
       ELSE /\ ~view.mom.null
            /\ view.mom.den # 0
            /\ view.mom.num * PrevOfAll = (LastOfAll - PrevOfAll) * 100 * view.mom.den
    /\ monthlyValuesAll = <<0, 50>> => view.mom = Null
    /\ monthlyValuesAll = <<50, 0>> => ~view.mom.null /\ view.mom.num = -100 * view.mom.den
    /\ monthlyValuesAll = <<100, 150>> => ~view.mom.null /\ view.mom.num = 50 * view.mom.den

\* [50, 0] shows -100 although the months window keeps one month only.
C16_Witness ==
  /\ Shown
  /\ page.monthsWindow = 1
  /\ view.monthlyValues = <<0>>
  /\ monthlyValuesAll = <<50, 0>>
  /\ ~view.mom.null
  /\ view.mom.num = -100 * view.mom.den

\* Month i of the full series is off the mean by more than 30 percent: with
\* n months that sum to s, v > 1.3 * s / n or v < 0.7 * s / n.
OffMean(i) ==
  LET n == Len(page.data.monthly.items)
      s == sum([j \in 1..n |-> page.data.monthly.items[j][2]])
      v == page.data.monthly.items[i][2]
  IN 10 * n * v > 13 * s \/ 10 * n * v < 7 * s

MeanIsZero ==
  LET n == Len(page.data.monthly.items)
  IN n = 0 \/ sum([j \in 1..n |-> page.data.monthly.items[j][2]]) = 0

\* C17: with the mean taken over the full monthly series, a month is
\* reported as an anomaly exactly when its value is above 1.3 times the mean
\* or below 0.7 times the mean, and no month is reported when the mean is
\* zero or the series is empty; [100, 100, 100, 1000] flags the 1000 month.
C17_Anomalies ==
  Shown =>
    /\ MeanIsZero => view.anomalies = <<>>
    /\ ~MeanIsZero =>
         /\ \A i \in 1..Len(page.data.monthly.items) :
              OffMean(i) <=>
                \E j \in 1..Len(view.anomalies) :
                  /\ view.anomalies[j].label = page.data.monthly.items[i][1]
                  /\ view.anomalies[j].value = page.data.monthly.items[i][2]
         /\ Len(view.anomalies) =
              Cardinality({i \in 1..Len(page.data.monthly.items) : OffMean(i)})
    /\ monthlyValuesAll = <<100, 100, 100, 1000>> =>
         \E j \in 1..Len(view.anomalies) :
           view.anomalies[j].label = MonthLabels[4] /\ view.anomalies[j].value = 1000

\* The example series is shown through a window of two months, and the 1000
\* month is among the anomalies.
C17_Witness ==
  /\ Shown
  /\ page.monthsWindow = 2
  /\ monthlyValuesAll = <<100, 100, 100, 1000>>
  /\ \E j \in 1..Len(view.anomalies) : view.anomalies[j].value = 1000

\* C18: when the monthly or the byCat field of the summary is missing or is
\* any value that is no array, rendering throws no error and every figure
\* derived from that field is the empty / no-data result.
C18_MalformedTolerated ==
  page.data.loaded =>
    /\ ~view.threw
    /\ page.data.monthly.tag # "array" =>
         /\ view.monthlyLabels = <<>>
         /\ view.monthlyValues = <<>>
         /\ view.movingAvg = <<>>
         /\ view.anomalies = <<>>
         /\ view.best = [label |-> "-", value |-> 0]
         /\ view.worst = [label |-> "-", value |-> 0]
         /\ view.mom = Null
    /\ page.data.byCat.tag # "array" => view.catTop = <<>>

\* The part of it that holds: a missing (or otherwise falsy) field gives the
\* no-data figures and no error.
C18_AbsentTolerated ==
  (/\ page.data.loaded
   /\ page.data.monthly.tag \in {"absent", "array"}
   /\ page.data.byCat.tag \in {"absent", "array"}) =>
    /\ ~view.threw
    /\ page.data.monthly.tag = "absent" =>
         /\ view.monthlyLabels = <<>>
         /\ view.monthlyValues = <<>>
         /\ view.movingAvg = <<>>
         /\ view.anomalies = <<>>
         /\ view.best = [label |-> "-", value |-> 0]
         /\ view.worst = [label |-> "-", value |-> 0]
         /\ view.mom = Null
    /\ page.data.byCat.tag = "absent" => view.catTop = <<>>

\* ------------------------------------------------------------------- CSV
\* The number of fields a CSV reader finds in a line: one more than the
\* commas that are outside quotes, a comma being outside quotes when an even
\* number of double quotes comes before it.
QuotesBefore(line, i) == Cardinality({j \in 1..(i - 1) : line[j] = Quote})

FieldCount(line) ==
  Cardinality({i \in 1..Len(line) : line[i] = Comma /\ QuotesBefore(line, i) % 2 = 0}) + 1

\* A cell is a text in double quotes with every double quote of the text
\* doubled.
Wraps(cell, text) ==
  /\ Len(cell) >= 2
  /\ cell[1] = Quote
  /\ cell[Len(cell)] = Quote
  /\ LET inner == SubSeq(cell, 2, Len(cell) - 1)
         at(i) == i + QuotesBefore(text, i)
     IN /\ Len(inner) = Len(text) + QuotesBefore(text, Len(text) + 1)
        /\ \A i \in 1..Len(text) :
             /\ inner[at(i)] = text[i]
             /\ text[i] = Quote => inner[at(i) + 1] = Quote

\* The text columns of a row, by header.
TextOf(row, header) ==
  IF header \in {"Category", "category"} THEN <<row.category>>
  ELSE IF header \in {"Description", "description"} THEN <<row.description>>
  ELSE IF header = "Name" THEN <<row.name>>
  ELSE <<>>

\* C19: in the expenses, budgets and savings CSV exports every text field is
\* wrapped in double quotes with each embedded double quote doubled (He said
\* "hi" becomes "He said ""hi"""), and the data row parses back to exactly as
\* many fields as the header, whatever commas or quotes the text contains.
C19_CsvEscaping ==
  csv.file # <<>> =>
    LET f == csv.file[1]
    IN /\ FieldCount(f.line) = Len(f.headers)
       /\ \A c \in 1..Len(f.headers) :
            TextOf(csv.row, f.headers[c]) # <<>> =>
              Wraps(f.cells[c], TextOf(csv.row, f.headers[c])[1])
       /\ (csv.row.table = "expenses" /\ csv.row.description = SaidHi) =>
            \E c \in 1..Len(f.cells) :
              f.cells[c] = <<Quote>> \o SubSeq(SaidHi, 1, 8)
                             \o <<Quote, Quote, "h", "i", Quote, Quote>> \o <<Quote>>

\* The part of it that holds: the cells the exports do quote are quoted as
\* the sentence says.
C19_QuotedCells ==
  csv.file # <<>> =>
    LET f == csv.file[1]
    IN /\ \A c \in 1..Len(f.headers) :
            (TextOf(csv.row, f.headers[c]) # <<>> /\ f.headers[c] # "category") =>
              Wraps(f.cells[c], TextOf(csv.row, f.headers[c])[1])
       /\ (csv.row.table = "expenses" /\ csv.row.description = SaidHi) =>
            \E c \in 1..Len(f.cells) :
              f.cells[c] = <<Quote>> \o SubSeq(SaidHi, 1, 8)
                             \o <<Quote, Quote, "h", "i", Quote, Quote>> \o <<Quote>>

\* ---------------------------------------------------------------------- C21
\* The state of the import flow as the page shows it.
Phase ==
  IF importing THEN "Applying" ELSE IF pendingImport # <<>> THEN "Staged" ELSE "Idle"

\* C21: an import run starts only from a staged document with no run in
\* flight and with the user's confirmation; while a run is applying, no
\* further run starts and the pending document is not cancelled; the flow
\* leaves Idle only to Staged, and leaves Applying only when the run ends, to
\* Idle after a success and to Staged after a failure.
C21_NoReentrantImport ==
  [][/\ (Phase = "Applying") <=> (pc # "idle")
     /\ runs' # runs =>
          Phase = "Staged" /\ Phase' = "Applying" /\ confirmed' /\ runs' = runs + 1
     /\ (Phase # "Applying" /\ Phase' = "Applying") => runs' = runs + 1
     /\ Phase = "Idle" => Phase' \in {"Idle", "Staged"}
     /\ (Phase = "Applying" /\ Phase' = "Idle") => outcome' = "success"
     /\ (Phase = "Applying" /\ Phase' = "Staged") => outcome' = "failed"
     /\ (Phase = "Applying" /\ Phase' = "Applying") => pendingImport' # <<>>]_vars

\* The second run of a behaviour is applying its document.
C21_Witness == importing /\ runs = 2 /\ pendingImport # <<>> /\ pc = "creating"

\* ---------------------------------------------------------------------- C22
\* The body of a saving-creation request is {name: text, target: number}.
NameAndTarget(b) ==
  /\ DOMAIN b = {"name", "target"}
  /\ b.name.type = "string"
  /\ b.target.type = "number"

\* C22: every saving-creation request the goal form has sent carries the
\* goal's name as text and its target as a number, and nothing else.
C22_SavingCreateBody == \A b \in ledger.sent : NameAndTarget(b)

\* The saving-creation requests of demo seeding and of import-apply carry a
\* name and a target and nothing else; progress follows in an update.
C22_ImportCreates ==
  /\ \A b \in DemoSavings : NameAndTarget(b)
  /\ \A i \in 1..Len(log) :
       \A r \in log[i].reqs :
         (r.op = "create" /\ r.kind = "savings") => DOMAIN r.body = {"name", "target"}

\* ---------------------------------------------------------------------- C29
\* The amount of a row: spent of a budget, current of a saving goal.
Amount(r) == IF ledger.route = "/budgets" THEN r.spent ELSE r.current

\* Every call on the row was one and the same positive amount.
SameIncrement(id) ==
  /\ id \notin ledger.edited
  /\ \A i \in 1..Len(ledger.asked[id]) :
       ledger.asked[id][i] > 0 /\ ledger.asked[id][i] = ledger.asked[id][1]

Increments(id) ==
  IF ledger.asked[id] = <<>> THEN 0 ELSE Len(ledger.asked[id]) * ledger.asked[id][1]

\* C29: when k calls of adjustSpent(id, d), d > 0, have all succeeded, the
\* stored spent is the initial one plus k*d; when k calls of contribute(id, a)
\* have all succeeded, the stored current is min(target, initial + k*a).
C29_NoLostIncrement ==
  (ledger # <<>> /\ ledger.inflight = {} /\ ledger.failed = 0) =>
    \A x \in ledger.opened :
      SameIncrement(x.id) =>
        \A now \in {r \in store[IF ledger.route = "/budgets" THEN "budgets" ELSE "savings"] :
                      r.id = x.id} :
          Amount(now) = IF ledger.route = "/budgets"
                        THEN Amount(x) + Increments(x.id)
                        ELSE Min(x.target, Amount(x) + Increments(x.id))

\* ---------------------------------------------------------------------- C23
\* The deletes clearData sends in a step, and the deletes, creates and updates
\* runImport sends in a step.
ClearIssued == {r \in clear'.inflight : r.op = "delete"} \ clear.inflight

ImportIssued == {r \in inflight' : r.op \in Mutations} \ inflight

\* C23: while an import run is in flight clearData sends no delete, and while
\* a clearData run is in flight runImport sends no delete, create or update.
C23_MutuallyExclusive ==
  [][/\ importing => ClearIssued = {}
     /\ clear.pc # "idle" => ImportIssued = {}]_<<vars, toolVars>>

\* ---------------------------------------------------------------------- C24
\* C24: when runImport or clearData has reported a failure, none of the
\* deletes it has sent is still in flight.
C24_HaltQuiescent ==
  /\ (pc = "idle" /\ outcome = "failed") => ~\E r \in inflight : r.op = "delete"
  /\ (clear.pc = "idle" /\ clear.outcome = "failed") =>
       ~\E r \in clear.inflight : r.op = "delete"

\* ---------------------------------------------------------------------- C25
\* The store holds one record for each record of the document and no other
\* (a budget is told by its category and limit: spent is not restored, C1).
SameBudgets ==
  /\ \A r \in store.budgets :
       \E i \in 1..Len(Arr(payload, "budgets")) :
         /\ Arr(payload, "budgets")[i].category = r.category
         /\ Arr(payload, "budgets")[i].limit = r.limit
  /\ \A i \in 1..Len(Arr(payload, "budgets")) :
       \E r \in store.budgets :
         /\ Arr(payload, "budgets")[i].category = r.category
         /\ Arr(payload, "budgets")[i].limit = r.limit

OneCopyOfEach ==
  /\ \A k \in KindSet : Cardinality(store[k]) = Len(Arr(payload, k))
  /\ SameRecords("expenses")
  /\ SameRecords("savings")
  /\ SameBudgets

\* C25: when a run has failed and a later run of the same pending document
\* has succeeded, the store holds exactly one copy of each record of the
\* document; what the failed run had created is not left behind.
C25_CleanRetry == (runs > 1 /\ outcome = "success") => OneCopyOfEach

\* The first run has created the expense and failed at the saving; the second
\* run has succeeded (the store was empty at first, so that three expenses
\* and two savings would have been numbered had the first run succeeded).
C25_Witness ==
  /\ runs = 2
  /\ outcome = "success"
  /\ payload = RetryDoc
  /\ nextId = [expenses |-> 3, budgets |-> 1, savings |-> 2]
  /\ OneCopyOfEach

\* ---------------------------------------------------------------------- C30
\* C30: importProgress is non-null exactly when importing is true, importing
\* implies a pending import, and after a run has ended, in success or in
\* failure, importing is false and importProgress is null.
C30_ImportUiState ==
  /\ (importProgress # <<>>) <=> importing
  /\ importing => pendingImport # <<>>
  /\ RunEnded => ~importing /\ importProgress = <<>>

\* A run that had shown progress of the restore has failed: both are reset
\* and the document is still pending.
C30_Witness ==
  /\ RunEnded
  /\ outcome = "failed"
  /\ Len(reports) > 1
  /\ ~importing
  /\ importProgress = <<>>
  /\ pendingImport # <<>>

\* ---------------------------------------------------------------------- C26
\* C26: after the Login page has had its success and has navigated to "/",
\* the Dashboard is rendered in the end (unless the user does something else
\* before).  The behaviours looked at are those in which the user is still
\* free to act after the login, so that none of them ends at MaxVisits.
C26_LoginReachesDashboard ==
  (auth.last = "entered" /\ auth.calls < MaxVisits) ~>
    (Screen = "Dashboard" \/ auth.last # "entered")

\* ---------------------------------------------------------------------- C27
\* The requests that settle in a step.
Settled == auth.requests \ auth'.requests

\* C27: a user that is set is reset to null only by a logout that settles or
\* by a refresh that settles, never by the session check of the mount effect.
C27_NoStaleLogout ==
  [][(auth.user # <<>> /\ auth'.user = <<>>) =>
       \E r \in Settled : r.op \in {"logout", "refresh"}]_auth

\* ---------------------------------------------------------------------- C28
ProtectedPages == {"Dashboard", "Settings"}

\* C28: a protected page is on screen only when loading is false and user is
\* non-null; a protected route shows the placeholder while loading, and is
\* left for /login when loading is false and user is null.  When a logout
\* settles, in success or in failure, user is null and no protected page is
\* on screen.
C28_RouteGuard ==
  [][/\ Screen' \in ProtectedPages => ~auth'.loading /\ auth'.user # <<>>
     /\ (auth'.route \in Protected /\ auth'.loading) => Screen' = "Loading"
     /\ (~auth'.loading /\ auth'.user = <<>>) => auth'.route \notin Protected
     /\ (\E r \in Settled : r.op = "logout") =>
          auth'.user = <<>> /\ Screen' \notin ProtectedPages]_auth

\* A logout has failed on the network: the session is still there, and the
\* user is null and the Login page is on screen nonetheless.
C28_Witness ==
  /\ auth # <<>>
  /\ auth.last = "loggedOut"
  /\ auth.session
  /\ auth.user = <<>>
  /\ Screen = "Login"

====
